---- MODULE Spec2Model ----
(***************************************************************************)
(* A model of the Granger-causality project, one group of variables and   *)
(* one specification for each source module:                               *)
(*   src/src/analysis/granger.py       pairwise Granger tests + summary    *)
(*   src/src/analysis/stationarity.py  ADF / KPSS wrappers, differencing   *)
(*   src/src/analysis/var_model.py     lag selection, fitting the VAR model*)
(*   src/src/data_processing/cleaner.py  normalisation, month index,       *)
(*                                       monthly aggregation               *)
(*   src/src/data_processing/merger.py   index merge, completeness report  *)
(*   src/src/data_processing/loader.py   reading the raw files             *)
(*   src/src/utils/logger.py           the registry of configured loggers  *)
(*   src/data/Moscow/convert.py        reshaping of the accidents table    *)
(*                                                                         *)
(* Real numbers (p-values, F statistics, significance levels) are integers *)
(* counting millionths.  The values handed out by the statistics library   *)
(* are multiples of 1/64, which binary floating point holds exactly, so    *)
(* that decimal formatting rounds as the program's formatting does.        *)
(* The statistics library itself (grangercausalitytests, adfuller, kpss)   *)
(* is an external collaborator: each call either raises or yields a value  *)
(* chosen from a small set.                                                *)
(***************************************************************************)
EXTENDS Integers, Sequences, FiniteSets, TLC

VARIABLES
    \* ---- perform_granger_causality_test / summarize_granger_results ----
    g_pc,         \* "idle" | "loop" | "done" | "summarized"
    g_names,      \* results.names of the fitted model
    g_max_lag,    \* argument max_lag
    g_alpha,      \* argument significance_level
    g_pos,        \* position of the double loop (row-major over names x names)
    g_results,    \* test_results: an insertion-ordered dict
    g_ret,        \* "pending" | "None" | "dict"
    g_attempted,  \* number of calls of grangercausalitytests so far
    g_failed,     \* the pairs whose library call raised, each with the exception's message
    g_errsignal,  \* the "max_lag must be positive" message was printed
    g_summary,    \* outcome of summarize_granger_results on the returned value
    \* ---- check_stationarity_adf / check_stationarity_kpss ----
    s_pc,         \* "idle" | "done"
    s_proc,       \* "adf" | "kpss"
    s_series,     \* argument series
    s_alpha,      \* argument significance_level
    s_ret,        \* outcome of the call: a returned pair, or a raised exception
    s_path,       \* which return path was taken
    s_failed,     \* some computation inside the call raised
    s_libcalls,   \* number of calls of the underlying statistic (adfuller / kpss)
    \* ---- apply_differencing ----
    d_pc,         \* "idle" | "done"
    d_data,       \* argument data (a series or a frame)
    d_order,      \* argument order
    d_out,        \* the returned object
    \* ---- cleaner.py: one call of one of its functions ----
    c_pc,         \* "idle" | "done"
    c_fn,         \* the function that was called
    \* ---- normalize_data ----
    n_series,     \* argument series
    n_method,     \* argument method
    n_out,        \* the returned series
    n_warned,     \* a warning was printed
    \* ---- unify_timestamps ----
    u_df,         \* argument df as it was when the call was made
    u_col,        \* argument date_col
    u_ret,        \* outcome of the call: a returned frame, or a raised exception
    u_after,      \* the caller's frame object when the call has ended
    u_signal,     \* which error message was printed, "none" if none
    \* ---- aggregate_monthly ----
    a_df,         \* argument df
    a_col,        \* argument value_col
    a_func,       \* argument agg_func
    a_ret,        \* outcome of the call: a returned series, or a raised exception
    a_signal,     \* which error message was printed, "none" if none
    \* ---- merger.py: one call of one of its functions ----
    m_pc,         \* "idle" | "done"
    m_fn,         \* the function that was called
    \* ---- merge_dataframes ----
    m_df1,        \* argument df1 as it was when the call was made
    m_df2,        \* argument df2 as it was when the call was made
    m_how,        \* argument how
    m_ret,        \* the returned frame
    m_warned,     \* the duplicate-column-names warning was printed
    m_signal,     \* which error message was printed, "none" if none
    m_after1,     \* the caller's df1 object when the call has ended
    m_after2,     \* the caller's df2 object when the call has ended
    \* ---- check_completeness ----
    k_df,         \* argument df
    k_ret,        \* outcome of the call: returned (None), or a raised exception
    k_nulls,      \* the number of missing cells that was reported
    k_report,     \* what was reported about the time index
    \* ---- loader.py: one call of one of its functions ----
    l_pc,         \* "idle" | "done"
    l_fn,         \* the function that was called
    l_temp_file,  \* the file at temp_path / filepath of load_temperature_data
    l_sec_path,   \* what the secondary path contains: "mortality" | "dtp" | "other"
    l_sec_file,   \* the file at secondary_path / filepath of load_secondary_data
    l_temp,       \* outcome of load_temperature_data: table and message printed
    l_sec,        \* outcome of load_secondary_data: table and message printed
    \* ---- fit_var_model ----
    f_pc,         \* "idle" | "done" | "selected" (select_optimal_lag was called)
    f_data,       \* argument data
    f_lag,        \* argument lag_order
    f_ret,        \* "pending" | "None" | "results"
    f_warned,     \* the missing-values warning was printed
    f_errsignal,  \* which error message was printed, "none" if none
    f_built,      \* number of VAR(data) constructions
    f_fits,       \* number of model.fit calls
    \* ---- select_optimal_lag ----
    o_data,       \* argument data
    o_max_lags,   \* argument max_lags
    o_criteria,   \* argument criteria, a list of names
    o_scan,       \* <<the library's lag-order results>>, <<>> if it raised
    o_ret,        \* the returned mapping
    o_warned,     \* the missing-values warning was printed
    \* ---- logger.py ----
    r_registry,   \* _configured_loggers: a function from the registered names
    r_loggers,    \* the loggers of the logging module, one per name
    r_callers,    \* per caller: where it is inside setup_logger, its arguments and
                  \* locals, and what it found when it called (registered: the
                  \* name was in the registry; leftover: the logger had handlers)
    \* ---- the stationarity stage of the pipeline ----
    t_pc,         \* "idle" | "test" | "difference" | "done"
    t_series,     \* the series as differenced so far
    t_order,      \* number of differencing rounds applied
    t_stationary, \* the latest decision of the two tests
    \* ---- convert.py ----
    v_pc,         \* "idle" | "done"
    v_all_rows,   \* all_rows: the rows read from the input
    v_out         \* transformed_data: the rows written to the output

gvars == <<g_pc, g_names, g_max_lag, g_alpha, g_pos, g_results, g_ret,
           g_attempted, g_failed, g_errsignal, g_summary>>
svars == <<s_pc, s_proc, s_series, s_alpha, s_ret, s_path, s_failed, s_libcalls>>
dvars == <<d_pc, d_data, d_order, d_out>>
nvars == <<n_series, n_method, n_out, n_warned>>
uvars == <<u_df, u_col, u_ret, u_after, u_signal>>
avars == <<a_df, a_col, a_func, a_ret, a_signal>>
cvars == <<c_pc, c_fn, nvars, uvars, avars>>
\* the data-processing stage
mgvars == <<m_df1, m_df2, m_how, m_ret, m_warned, m_signal, m_after1, m_after2>>
kvars == <<k_df, k_ret, k_nulls, k_report>>
mvars == <<m_pc, m_fn, mgvars, kvars>>
lvars == <<l_pc, l_fn, l_temp_file, l_sec_path, l_sec_file, l_temp, l_sec>>
pvars == <<cvars, mvars, lvars>>
ovars == <<o_data, o_max_lags, o_criteria, o_scan, o_ret, o_warned>>
fvars == <<f_pc, f_data, f_lag, f_ret, f_warned, f_errsignal, f_built, f_fits, ovars>>
rvars == <<r_registry, r_loggers, r_callers>>
tvars == <<t_pc, t_series, t_order, t_stationary>>
vvars == <<v_pc, v_all_rows, v_out>>
xvars == <<rvars, tvars, vvars>>
vars == <<gvars, svars, dvars, pvars, fvars, xvars>>

(***************************************************************************)
(* Numbers                                                                 *)
(***************************************************************************)
\* 1/64 in millionths: every multiple is an exact binary fraction.
PUnit == 1000000 \div 64
\* 1.0 in millionths.
One == 64 * PUnit

Abs(x) == IF x < 0 THEN -x ELSE x

RECURSIVE Pow10(_)
Pow10(d) == IF d = 0 THEN 1 ELSE 10 * Pow10(d - 1)

DigitStr(d) ==
    CASE d = 0 -> "0" [] d = 1 -> "1" [] d = 2 -> "2" [] d = 3 -> "3"
      [] d = 4 -> "4" [] d = 5 -> "5" [] d = 6 -> "6" [] d = 7 -> "7"
      [] d = 8 -> "8" [] d = 9 -> "9"

\* str(n) for a natural number n.
RECURSIVE IntStr(_)
IntStr(n) == IF n < 10 THEN DigitStr(n) ELSE IntStr(n \div 10) \o DigitStr(n % 10)

\* n written with exactly d digits (leading zeros).
RECURSIVE PadStr(_, _)
PadStr(n, d) == IF d = 0 THEN "" ELSE PadStr(n \div 10, d - 1) \o DigitStr(n % 10)

\* The nearest multiple of 10^-d to x (x >= 0 in millionths, d <= 6), counted in
\* units of 10^-d, ties to even: what "%.df" does to an exactly held value.
RoundHalfEven(x, d) ==
    LET unit == Pow10(6 - d)
        q == x \div unit
        r == x % unit
    IN  IF 2 * r > unit \/ (2 * r = unit /\ q % 2 = 1) THEN q + 1 ELSE q

\* A count q of units of 10^-d written as a decimal with d places.
DecStr(q, d) ==
    IF d = 0 THEN IntStr(q)
    ELSE IntStr(q \div Pow10(d)) \o "." \o PadStr(q % Pow10(d), d)

\* Truncation instead of rounding.
FormatFixedTruncating(x, d) == DecStr(x \div Pow10(6 - d), d)

\* f"{x:.df}" for x >= 0.
FormatFixed(x, d) == DecStr(RoundHalfEven(x, d), d)

(***************************************************************************)
(* Insertion-ordered dictionaries: a sequence of [key, val] items.         *)
(***************************************************************************)
DictKeys(dct) == {dct[k].key : k \in 1..Len(dct)}

DictHas(dct, key) == key \in DictKeys(dct)

DictGet(dct, key) == dct[CHOOSE k \in 1..Len(dct) : dct[k].key = key].val

\* dct[key] = val: an existing key keeps its place, a new key goes last.
DictSet(dct, key, val) ==
    IF DictHas(dct, key)
    THEN [k \in 1..Len(dct) |->
            IF dct[k].key = key THEN [key |-> key, val |-> val] ELSE dct[k]]
    ELSE Append(dct, [key |-> key, val |-> val])

(***************************************************************************)
(* granger.py: perform_granger_causality_test                              *)
(***************************************************************************)
\* Bound: max_lag ranges over -1..MaxLag.
MaxLag == 2

\* The variable names a fitted model may carry (results.names): distinct names.
VarNames == <<"X", "Y", "Z">>
NameLists == {SubSeq(VarNames, 1, n) : n \in 1..Len(VarNames)}
Lags == -1..MaxLag
\* significance_level: the default 0.05, and 0.04.
Alphas == {50000, 40000}
\* p-values the library may report: 2/64 = 0.03125 and 3/64 = 0.046875.
GrangerPValues == {2 * PUnit, 3 * PUnit}
\* str(e) of the exceptions the library may raise.
ErrorMessages == {"singular matrix", "insufficient observations"}

\* What grangercausalitytests(test_data, [lag]) hands back for the one lag asked
\* for, gc_results[lag][0]: each F test is (F, p-value, df_denom, df_num).
LagResult(ssr_p, params_p, lag) ==
    [ssr_ftest    |-> <<160 * PUnit, ssr_p, 90, lag>>,
     params_ftest |-> <<160 * PUnit, params_p, 90, lag>>]

\* The library call's possible outcomes; it cannot test at a lag below 1.
LibOutcomes(lag) ==
    [raised : {TRUE}, msg : ErrorMessages]
    \cup
    (IF lag >= 1
     THEN {[raised |-> FALSE, result |-> LagResult(sp, pp, lag)] :
              sp \in GrangerPValues, pp \in GrangerPValues}
     ELSE {})

\* The guard compares with < instead of <=.
InvalidLagStrict(max_lag) == max_lag < 0

\* granger.py:28
InvalidLag(max_lag) == max_lag <= 0

\* No pair is skipped.
SkipPairNever(caused_var, causing_var) == FALSE

\* granger.py:40-41
SkipPair(caused_var, causing_var) == caused_var = causing_var

\* The pair the double loop visits at position pos (1 .. n*n), row-major:
\* the outer loop runs over caused_var, the inner over causing_var.
CausedAt(names, pos) == names[((pos - 1) \div Len(names)) + 1]
CausingAt(names, pos) == names[((pos - 1) % Len(names)) + 1]
EndPos(names) == Len(names) * Len(names) + 1

\* The first position from pos on whose pair is not skipped, or EndPos.
RECURSIVE SeekPair(_, _)
SeekPair(names, pos) ==
    IF pos >= EndPos(names) THEN EndPos(names)
    ELSE IF SkipPair(CausedAt(names, pos), CausingAt(names, pos))
         THEN SeekPair(names, pos + 1)
         ELSE pos

\* A failing pair ends the loop (the exception handler breaks out).
AfterFailureAbort(names, pos) == EndPos(names)

\* granger.py:90-92: the handler records the error and the loop goes on.
AfterFailure(names, pos) == SeekPair(names, pos + 1)

\* granger.py:71-72
Significant(p, alpha) == p < alpha

\* Both flags are decided from the ssr p-value.
SuccessEntryOneFlag(lag_result, max_lag, alpha) ==
    LET p_value == lag_result.ssr_ftest[2]
        p_params_value == lag_result.params_ftest[2]
    IN  [ssr_F              |-> lag_result.ssr_ftest[1],
         ssr_p_value        |-> p_value,
         ssr_significant    |-> Significant(p_value, alpha),
         params_F           |-> lag_result.params_ftest[1],
         params_p_value     |-> p_params_value,
         params_significant |-> Significant(p_value, alpha),
         lag                |-> max_lag,
         df_num             |-> lag_result.ssr_ftest[3],
         df_den             |-> lag_result.ssr_ftest[4]]

\* granger.py:58-84 (the source indexes the tuples from 0)
SuccessEntry(lag_result, max_lag, alpha) ==
    LET p_value == lag_result.ssr_ftest[2]
        p_params_value == lag_result.params_ftest[2]
    IN  [ssr_F              |-> lag_result.ssr_ftest[1],
         ssr_p_value        |-> p_value,
         ssr_significant    |-> Significant(p_value, alpha),
         params_F           |-> lag_result.params_ftest[1],
         params_p_value     |-> p_params_value,
         params_significant |-> Significant(p_params_value, alpha),
         lag                |-> max_lag,
         df_num             |-> lag_result.ssr_ftest[3],
         df_den             |-> lag_result.ssr_ftest[4]]

\* granger.py:92
ErrorEntry(msg) == [error |-> msg]

\* granger.py:11-36: the call; max_lag <= 0 returns None at once.
GrangerCall ==
    /\ g_pc = "idle"
    /\ \E names \in NameLists, max_lag \in Lags, alpha \in Alphas :
         /\ g_names' = names
         /\ g_max_lag' = max_lag
         /\ g_alpha' = alpha
         /\ IF InvalidLag(max_lag)
            THEN /\ g_errsignal' = TRUE
                 /\ g_ret' = "None"
                 /\ g_pc' = "done"
                 /\ UNCHANGED <<g_pos, g_results>>
            ELSE /\ g_results' = <<>>
                 /\ g_pos' = SeekPair(names, 1)
                 /\ g_pc' = "loop"
                 /\ UNCHANGED <<g_errsignal, g_ret>>
    /\ UNCHANGED <<g_attempted, g_failed, g_summary>>
    /\ UNCHANGED <<svars, dvars, pvars, fvars, xvars>>

\* granger.py:43-92: one iteration of the loop body for a pair that is tested.
GrangerPair ==
    /\ g_pc = "loop"
    /\ g_pos < EndPos(g_names)
    /\ LET caused_var == CausedAt(g_names, g_pos)
           causing_var == CausingAt(g_names, g_pos)
           key == <<caused_var, causing_var>>
       IN  \E out \in LibOutcomes(g_max_lag) :
             /\ g_attempted' = g_attempted + 1
             /\ IF out.raised
                THEN /\ g_results' = DictSet(g_results, key, ErrorEntry(out.msg))
                     /\ g_failed' = g_failed \cup {[key |-> key, msg |-> out.msg]}
                     /\ g_pos' = AfterFailure(g_names, g_pos)
                ELSE /\ g_results' = DictSet(g_results, key,
                                         SuccessEntry(out.result, g_max_lag, g_alpha))
                     /\ g_pos' = SeekPair(g_names, g_pos + 1)
                     /\ UNCHANGED g_failed
    /\ UNCHANGED <<g_pc, g_names, g_max_lag, g_alpha, g_ret, g_errsignal, g_summary>>
    /\ UNCHANGED <<svars, dvars, pvars, fvars, xvars>>

\* granger.py:94
GrangerReturn ==
    /\ g_pc = "loop"
    /\ g_pos >= EndPos(g_names)
    /\ g_ret' = "dict"
    /\ g_pc' = "done"
    /\ UNCHANGED <<g_names, g_max_lag, g_alpha, g_pos, g_results, g_attempted,
                   g_failed, g_errsignal, g_summary>>
    /\ UNCHANGED <<svars, dvars, pvars, fvars, xvars>>

(***************************************************************************)
(* granger.py: summarize_granger_results                                   *)
(***************************************************************************)
\* granger.py:104, 114
Effect(caused, causing) == causing \o " -> " \o caused

\* The p-values are cut, not rounded, to 4 places.
FormatPValueTruncating(p) == FormatFixedTruncating(p, 4)

\* granger.py:116, 118: f"{p:.4f}"
FormatPValue(p) == FormatFixed(p, 4)

\* granger.py:103-111
ErrorRow(caused, causing, results) ==
    [Effect             |-> Effect(caused, causing),
     Lag                |-> IF "lag" \in DOMAIN results THEN results.lag ELSE "N/A",
     SSR_p_value        |-> "Error",
     SSR_Significant    |-> "Error",
     Params_p_value     |-> "Error",
     Params_Significant |-> "Error",
     Details            |-> results.error]

\* granger.py:113-121
ResultRow(caused, causing, results) ==
    [Effect             |-> Effect(caused, causing),
     Lag                |-> results.lag,
     SSR_p_value        |-> FormatPValue(results.ssr_p_value),
     SSR_Significant    |-> results.ssr_significant,
     Params_p_value     |-> FormatPValue(results.params_p_value),
     Params_Significant |-> results.params_significant,
     Details            |-> "F=" \o FormatFixed(results.ssr_F, 2) \o ", df=("
                              \o IntStr(results.df_num) \o ", "
                              \o IntStr(results.df_den) \o ")"]

\* Only the entries that hold a result get a row.
SummaryRowsOfResults(results_dict) ==
    LET kept == SelectSeq(results_dict, LAMBDA e : "error" \notin DOMAIN e.val)
    IN  [k \in 1..Len(kept) |->
            ResultRow(kept[k].key[1], kept[k].key[2], kept[k].val)]

\* granger.py:100-122: one row per item, in the mapping's order.
SummaryRows(results_dict) ==
    [k \in 1..Len(results_dict) |->
        LET caused == results_dict[k].key[1]
            causing == results_dict[k].key[2]
            results == results_dict[k].val
        IN  IF "error" \in DOMAIN results
            THEN ErrorRow(caused, causing, results)
            ELSE ResultRow(caused, causing, results)]

\* granger.py:98-122 applied to what perform_granger_causality_test returned;
\* None has no items(), so iterating it raises.
Summarize ==
    /\ g_pc = "done"
    /\ g_summary' = IF g_ret = "None"
                    THEN [raised |-> TRUE, rows |-> <<>>]
                    ELSE [raised |-> FALSE, rows |-> SummaryRows(g_results)]
    /\ g_pc' = "summarized"
    /\ UNCHANGED <<g_names, g_max_lag, g_alpha, g_pos, g_results, g_ret,
                   g_attempted, g_failed, g_errsignal>>
    /\ UNCHANGED <<svars, dvars, pvars, fvars, xvars>>

(***************************************************************************)
(* Series and frames.  A cell is a number, a missing value (NaN) or a      *)
(* non-numeric object; numbers in a series are counted in millionths.      *)
(***************************************************************************)
Num(v) == [t |-> "num", v |-> v]
Missing == [t |-> "nan"]
Text == [t |-> "str"]

IsNum(e) == e.t = "num"
IsMissing(e) == e.t = "nan"

\* All sequences over S of length 0..n.
SeqsUpTo(S, n) == UNION {[1..k -> S] : k \in 0..n}

\* IEEE comparisons of floats: any comparison with NaN is false.
FloatLt(a, b) == IsNum(a) /\ IsNum(b) /\ a.v < b.v
FloatGe(a, b) == IsNum(a) /\ IsNum(b) /\ a.v >= b.v

\* Series.dropna()
Dropna(series) == SelectSeq(series, LAMBDA e : ~IsMissing(e))

RECURSIVE SumSeq(_)
SumSeq(xs) == IF xs = <<>> THEN 0 ELSE Head(xs) + SumSeq(Tail(xs))

(***************************************************************************)
(* stationarity.py: check_stationarity_adf, check_stationarity_kpss        *)
(***************************************************************************)
\* Bound: series have at most MaxLen elements.
MaxLen == 3
\* Bound: p-values and significance levels lie on the grid k/StatGrid.
StatGrid == 4

\* 5 and 20 millionths apart: the first within the variance threshold, the
\* second beyond it.
SeriesElems == {Num(0), Num(5), Num(20), Missing, Text}
SeriesInputs == SeqsUpTo(SeriesElems, MaxLen)
StatPValues == {Num(k * (One \div StatGrid)) : k \in 0..StatGrid} \cup {Missing}
\* 0 < significance_level <= 1
StatAlphas == {Num(k * (One \div StatGrid)) : k \in 1..StatGrid}

\* 1e-10 (stationarity.py:65) in squared millionths.
VarThreshold == 100

\* Series.var(): the sample variance (ddof = 1) as the fraction num/den, NaN
\* with fewer than two observations; non-numeric content makes it raise.
SampleVariance(xs) ==
    IF \E k \in 1..Len(xs) : ~IsNum(xs[k]) THEN [kind |-> "raise"]
    ELSE IF Len(xs) < 2 THEN [kind |-> "nan"]
    ELSE LET n == Len(xs)
             s1 == SumSeq([k \in 1..n |-> xs[k].v])
             s2 == SumSeq([k \in 1..n |-> xs[k].v * xs[k].v])
         IN  [kind |-> "num", num |-> n * s2 - s1 * s1, den |-> n * (n - 1)]

\* The pre-check tests for an exactly zero variance.
VarianceExactlyZero(var) == var.kind = "num" /\ var.num = 0

\* stationarity.py:65: var < 1e-10 (false for NaN)
VarianceNearZero(var) == var.kind = "num" /\ var.num < VarThreshold * var.den

\* What adfuller / kpss may do with the cleaned series: raise, or report a
\* p-value; neither can compute on non-numeric or empty input.
StatLibOutcomes(xs) ==
    {[raised |-> TRUE]}
    \cup
    (IF xs # <<>> /\ \A k \in 1..Len(xs) : IsNum(xs[k])
     THEN {[raised |-> FALSE, p |-> p] : p \in StatPValues}
     ELSE {})

\* stationarity.py:34
AdfStationary(p_value, significance_level) == FloatLt(p_value, significance_level)

\* The comparison is strict.
KpssStationaryStrict(p_value, significance_level) ==
    IsNum(p_value) /\ IsNum(significance_level) /\ p_value.v > significance_level.v

\* stationarity.py:76
KpssStationary(p_value, significance_level) == FloatGe(p_value, significance_level)

Returned(is_stationary, p_value) ==
    [kind |-> "return", is_stationary |-> is_stationary, p |-> p_value]
Raised == [kind |-> "raised"]

\* stationarity.py:10-43
CheckADF ==
    /\ s_pc = "idle"
    /\ \E series \in SeriesInputs, alpha \in StatAlphas :
       \E out \in StatLibOutcomes(Dropna(series)) :
         /\ s_proc' = "adf"
         /\ s_series' = series
         /\ s_alpha' = alpha
         /\ s_libcalls' = s_libcalls + 1
         /\ IF out.raised
            THEN /\ s_ret' = Returned(FALSE, Num(One))
                 /\ s_path' = "fallback"
                 /\ s_failed' = TRUE
            ELSE /\ s_ret' = Returned(AdfStationary(out.p, alpha), out.p)
                 /\ s_path' = "normal"
                 /\ s_failed' = FALSE
    /\ s_pc' = "done"
    /\ UNCHANGED <<gvars, dvars, pvars, fvars, xvars>>

\* stationarity.py:46-85: the variance pre-check stands before the try block.
CheckKPSS ==
    /\ s_pc = "idle"
    /\ \E series \in SeriesInputs, alpha \in StatAlphas :
       \E out \in StatLibOutcomes(Dropna(series)) :
         LET var == SampleVariance(Dropna(series))
         IN  /\ s_proc' = "kpss"
             /\ s_series' = series
             /\ s_alpha' = alpha
             /\ IF var.kind = "raise"
                THEN /\ s_ret' = Raised
                     /\ s_path' = "raised"
                     /\ s_failed' = TRUE
                     /\ UNCHANGED s_libcalls
                ELSE IF VarianceNearZero(var)
                THEN /\ s_ret' = Returned(TRUE, Num(One))
                     /\ s_path' = "shortcut"
                     /\ s_failed' = FALSE
                     /\ UNCHANGED s_libcalls
                ELSE /\ s_libcalls' = s_libcalls + 1
                     /\ IF out.raised
                        THEN /\ s_ret' = Returned(FALSE, Num(0))
                             /\ s_path' = "fallback"
                             /\ s_failed' = TRUE
                        ELSE /\ s_ret' = Returned(KpssStationary(out.p, alpha), out.p)
                             /\ s_path' = "normal"
                             /\ s_failed' = FALSE
    /\ s_pc' = "done"
    /\ UNCHANGED <<gvars, dvars, pvars, fvars, xvars>>

(***************************************************************************)
(* stationarity.py: apply_differencing                                     *)
(***************************************************************************)
\* Bound: a series or frame has at most MaxRows rows.
MaxRows == 3
\* Bound: order ranges over -1..MaxOrder.
MaxOrder == 2

CellValues == {Num(0), Num(1), Missing}
DiffOrders == -1..MaxOrder
\* The columns of a frame.
FrameColumns == <<"a", "b">>
FrameWidth == Len(FrameColumns)

\* A series or frame of n rows: row t carries index label t and one cell per column.
DataOf(kind, cells) ==
    [kind |-> kind, rows |-> [t \in 1..Len(cells) |-> [idx |-> t, vals |-> cells[t]]]]
DataInputs ==
    {DataOf("series", c) : c \in SeqsUpTo([1..1 -> CellValues], MaxRows)}
    \cup
    {DataOf("frame", c) : c \in SeqsUpTo([1..FrameWidth -> CellValues], MaxRows)}

\* a - b on floats
FloatSub(a, b) == IF IsNum(a) /\ IsNum(b) THEN Num(a.v - b.v) ELSE Missing

\* pandas diff(periods): row t becomes x[t] - x[t - periods], NaN where there is
\* no row t - periods; index and shape are kept.
PandasDiff(rows, periods) ==
    [t \in 1..Len(rows) |->
        [idx  |-> rows[t].idx,
         vals |-> [c \in 1..Len(rows[t].vals) |->
                     IF t - periods >= 1 /\ t - periods <= Len(rows)
                     THEN FloatSub(rows[t].vals[c], rows[t - periods].vals[c])
                     ELSE Missing]]]

\* No row is dropped.
PandasDropnaKeepsAll(rows) == rows

\* dropna(): a row with any missing cell is dropped.
PandasDropna(rows) ==
    SelectSeq(rows, LAMBDA r : \A c \in 1..Len(r.vals) : ~IsMissing(r.vals[c]))

\* Only a negative order returns the input.
NoDifferencingNegative(order) == order < 0

\* stationarity.py:99
NoDifferencing(order) == order <= 0

\* stationarity.py:99-106: both branches compute data.diff(order).dropna()
Differenced(data, order) ==
    IF NoDifferencing(order) THEN data
    ELSE [kind |-> data.kind, rows |-> PandasDropna(PandasDiff(data.rows, order))]

\* stationarity.py:88-106
ApplyDifferencing ==
    /\ d_pc = "idle"
    /\ \E data \in DataInputs, order \in DiffOrders :
         /\ d_data' = data
         /\ d_order' = order
         /\ d_out' = Differenced(data, order)
    /\ d_pc' = "done"
    /\ UNCHANGED <<gvars, svars, pvars, fvars, xvars>>

(***************************************************************************)
(* cleaner.py: normalize_data                                              *)
(* A series is a sequence of whole numbers; position is the index label.   *)
(* Results that are not rational are kept symbolic:                        *)
(*   [t |-> "ln", x |-> x]              the natural logarithm of x         *)
(*   [t |-> "z", num |-> a, rad |-> r]  the quotient a / sqrt(r)           *)
(***************************************************************************)
\* Bound: a series to normalise has at most NormLen elements.
NormLen == 3
NormInputs == SeqsUpTo({Num(v) : v \in -1..2}, NormLen)

NegInf == [t |-> "-inf"]
Ln(x) == [t |-> "ln", x |-> x]
Quot(num, rad) == [t |-> "z", num |-> num, rad |-> rad]

SumOf(series) == SumSeq([i \in 1..Len(series) |-> series[i].v])
\* n * sum(x^2) - (sum x)^2 = n^2 * (population variance) = n * sum((x - mean)^2)
ScaledSquaredDeviation(series) ==
    Len(series) * SumSeq([i \in 1..Len(series) |-> series[i].v * series[i].v])
        - SumOf(series) * SumOf(series)

\* cleaner.py:55: series.std() == 0.  Series.std() is the sample standard
\* deviation (ddof = 1): NaN for fewer than two elements, and NaN == 0 is False.
SampleStdIsZero(series) ==
    Len(series) >= 2 /\ ScaledSquaredDeviation(series) = 0

\* cleaner.py:59: stats.zscore(series) = (x - mean) / population std, element
\* by element; 0 / 0 is NaN.
ZScore(series) ==
    [i \in 1..Len(series) |->
        IF ScaledSquaredDeviation(series) = 0 THEN Missing
        ELSE Quot(Len(series) * series[i].v - SumOf(series), ScaledSquaredDeviation(series))]

\* Only negative elements are replaced.
LogAdjustNegative(x) == IF x.v < 0 THEN Num(1) ELSE x

\* cleaner.py:68: series_adjusted[series_adjusted <= 0] = 1
LogAdjust(x) == IF x.v <= 0 THEN Num(1) ELSE x

\* np.log on one float: log(1) = 0, log(0) = -inf, log of a negative is NaN
NpLog(x) ==
    IF x.v > 0 THEN (IF x.v = 1 THEN Num(0) ELSE Ln(x.v))
    ELSE IF x.v = 0 THEN NegInf ELSE Missing

\* cleaner.py:62: (series <= 0).any()
AnyNonPositive(series) == \E i \in 1..Len(series) : series[i].v <= 0

\* cleaner.py:53-80: the returned series and whether a warning was printed
Normalized(series, method) ==
    IF method = "z-score"
    THEN IF SampleStdIsZero(series)
         THEN [out |-> series, warned |-> TRUE]
         ELSE [out |-> ZScore(series), warned |-> FALSE]
    ELSE IF method = "log"
    THEN IF AnyNonPositive(series)
         THEN [out |-> [i \in 1..Len(series) |-> NpLog(LogAdjust(series[i]))],
               warned |-> TRUE]
         ELSE [out |-> [i \in 1..Len(series) |-> NpLog(series[i])], warned |-> FALSE]
    ELSE IF method = "None"
    THEN [out |-> series, warned |-> FALSE]
    ELSE [out |-> series, warned |-> TRUE]

\* cleaner.py:41-80
NormalizeData ==
    /\ c_pc = "idle"
    /\ \E series \in NormInputs, method \in {"z-score", "log", "None", "min-max"} :
         /\ n_series' = series
         /\ n_method' = method
         /\ n_out' = Normalized(series, method).out
         /\ n_warned' = Normalized(series, method).warned
    /\ c_pc' = "done"
    /\ c_fn' = "normalize_data"
    /\ UNCHANGED <<uvars, avars>>
    /\ UNCHANGED <<gvars, svars, dvars, mvars, lvars, fvars, xvars>>

(***************************************************************************)
(* Time labels.  The calendar has the months 1..MaxMonths of one year,     *)
(* each of DaysPerMonth days.                                              *)
(***************************************************************************)
\* Bound: the months of the calendar.
MaxMonths == 3
\* Bound: the days of a month.
DaysPerMonth == 2

Months == 1..MaxMonths
Days == 1..DaysPerMonth
\* a date written as text, a Timestamp, a monthly Period, a RangeIndex label
DateStr(m, d) == [t |-> "datestr", m |-> m, d |-> d]
Timestamp(m, d) == [t |-> "ts", m |-> m, d |-> d]
Period(m) == [t |-> "period", m |-> m]
IntLabel(i) == [t |-> "int", v |-> i]

\* pd.to_datetime raises when some value cannot be parsed as a date
CanConvert(cells) == \A i \in 1..Len(cells) : cells[i].t \in {"datestr", "ts"}
ToDatetime(cells) == [i \in 1..Len(cells) |-> Timestamp(cells[i].m, cells[i].d)]
\* .to_period('M') on timestamps
ToPeriod(cells) == [i \in 1..Len(cells) |-> Period(cells[i].m)]

(***************************************************************************)
(* cleaner.py: unify_timestamps                                            *)
(* A frame is an index (one label per row) and a sequence of named columns.*)
(***************************************************************************)
\* Bound: a frame handed to unify_timestamps has at most UnifyRows rows.
UnifyRows == 2

Column(name, cells) == [name |-> name, cells |-> cells]
ColumnNames(df) == {df.cols[c].name : c \in 1..Len(df.cols)}
ColumnOf(df, name) == df.cols[CHOOSE c \in 1..Len(df.cols) : df.cols[c].name = name]
\* df[name] = cells: replaces the column of that name, or appends a new one
SetColumn(df, name, cells) ==
    [df EXCEPT !.cols =
        IF name \in ColumnNames(df)
        THEN [c \in 1..Len(df.cols) |->
                IF df.cols[c].name = name THEN Column(name, cells) ELSE df.cols[c]]
        ELSE Append(df.cols, Column(name, cells))]
\* df.set_index(name): the column becomes the index and leaves the columns
SetIndex(df, name) ==
    [index |-> ColumnOf(df, name).cells,
     cols  |-> SelectSeq(df.cols, LAMBDA col : col.name # name)]

RangeIndex(n) == [i \in 1..n |-> IntLabel(i - 1)]
ValueColumn(n) == Column("Value", [i \in 1..n |-> Num(i)])
\* frames with a 'Date' column of texts, and frames without one
UnifyInputs ==
    {[index |-> RangeIndex(Len(dates)),
      cols  |-> <<Column("Date", dates), ValueColumn(Len(dates))>>] :
        dates \in SeqsUpTo({DateStr(m, d) : m \in Months, d \in Days} \cup {Text},
                            UnifyRows)}
    \cup
    {[index |-> RangeIndex(n), cols |-> <<ValueColumn(n)>>] : n \in 0..UnifyRows}

ReturnedFrame(df) == [kind |-> "frame", frame |-> df]

\* The KeyError is not caught.
UnifyKeyErrorPropagates(df) == [ret |-> Raised, after |-> df, signal |-> "none"]

\* cleaner.py:33-35: except KeyError: print, return df
UnifyKeyError(df) == [ret |-> ReturnedFrame(df), after |-> df, signal |-> "KeyError"]

\* cleaner.py:36-38: except Exception: print, return df
UnifyOtherError(df) == [ret |-> ReturnedFrame(df), after |-> df, signal |-> "Exception"]

\* cleaner.py:25-32: the date column is converted and the 'Month' column added
\* on the frame object that was passed in; set_index returns a new frame.
UnifySuccess(df, date_col) ==
    LET converted == SetColumn(df, date_col, ToDatetime(ColumnOf(df, date_col).cells))
        with_month == SetColumn(converted, "Month",
                                ToPeriod(ColumnOf(converted, date_col).cells))
    IN  [ret |-> ReturnedFrame(SetIndex(with_month, "Month")),
         after |-> with_month, signal |-> "none"]

\* cleaner.py:23-38
Unified(df, date_col) ==
    IF date_col \notin ColumnNames(df) THEN UnifyKeyError(df)
    ELSE IF ~CanConvert(ColumnOf(df, date_col).cells) THEN UnifyOtherError(df)
    ELSE UnifySuccess(df, date_col)

\* cleaner.py:10-38
UnifyTimestamps ==
    /\ c_pc = "idle"
    /\ \E df \in UnifyInputs, date_col \in {"Date", "Day"} :
         /\ u_df' = df
         /\ u_col' = date_col
         /\ u_ret' = Unified(df, date_col).ret
         /\ u_after' = Unified(df, date_col).after
         /\ u_signal' = Unified(df, date_col).signal
    /\ c_pc' = "done"
    /\ c_fn' = "unify_timestamps"
    /\ UNCHANGED <<nvars, avars>>
    /\ UNCHANGED <<gvars, svars, dvars, mvars, lvars, fvars, xvars>>

(***************************************************************************)
(* cleaner.py: aggregate_monthly                                           *)
(* The argument frame has one value column and an index in time order that *)
(* is a PeriodIndex, a DatetimeIndex, or an index of texts.                *)
(***************************************************************************)
\* Bound: a frame handed to aggregate_monthly has at most AggRows rows.
AggRows == 3

\* the days of the calendar, numbered in time order
DayNumbers == 1..(MaxMonths * DaysPerMonth)
MonthOfDay(k) == ((k - 1) \div DaysPerMonth) + 1
DayOfDay(k) == ((k - 1) % DaysPerMonth) + 1
NonDecreasing(S, n) ==
    {q \in SeqsUpTo(S, n) : \A i \in 1..(Len(q) - 1) : q[i] <= q[i + 1]}

\* the index of the argument, in time order: a PeriodIndex of months, a
\* DatetimeIndex of days, or an index of texts, at most one of them not a date
AggIndexes ==
    LET months == NonDecreasing(Months, AggRows)
        texts(q) == [i \in 1..Len(q) |-> DateStr(q[i], 1)]
    IN  {[i \in 1..Len(q) |-> Period(q[i])] : q \in months}
        \cup {[i \in 1..Len(q) |-> Timestamp(MonthOfDay(q[i]), DayOfDay(q[i]))] :
                q \in NonDecreasing(DayNumbers, AggRows)}
        \cup {texts(q) : q \in months}
        \cup UNION {{[texts(q) EXCEPT ![j] = Text] : j \in 1..Len(q)} : q \in months}

IsPeriodIndex(index) == Len(index) > 0 /\ index[1].t = "period"
IsDatetimeIndex(index) == Len(index) > 0 /\ index[1].t = "ts"

\* PeriodIndex.to_timestamp(): the first day of the period
ToTimestamp(index) == [i \in 1..Len(index) |-> Timestamp(index[i].m, 1)]

EmptySeries == [kind |-> "series", index |-> <<>>, vals |-> <<>>]

\* sum / count as a float: exact when the division is, else kept as a fraction
Mean(sum, count) ==
    IF count = 0 THEN Missing
    ELSE IF sum % count = 0 THEN Num(sum \div count)
    ELSE [t |-> "frac", num |-> sum, den |-> count]

\* the named aggregation over the values of one bucket
Aggregate(agg_func, vals) ==
    LET sum == SumSeq([i \in 1..Len(vals) |-> vals[i].v])
    IN  IF agg_func = "sum" THEN Num(sum) ELSE Mean(sum, Len(vals))

\* The month-end buckets start at the first month of the calendar.
BucketMonthsFromStart(index) ==
    IF index = <<>> THEN <<>>
    ELSE LET hi == CHOOSE m \in Months : /\ \E i \in 1..Len(index) : index[i].m = m
                                         /\ \A i \in 1..Len(index) : index[i].m <= m
         IN  [k \in 1..hi |-> k]

\* resample('ME'): one bucket for each month from the first to the last month
\* of the index, in order, the months without rows included
BucketMonths(index) ==
    IF index = <<>> THEN <<>>
    ELSE LET lo == CHOOSE m \in Months : /\ \E i \in 1..Len(index) : index[i].m = m
                                         /\ \A i \in 1..Len(index) : index[i].m >= m
             hi == CHOOSE m \in Months : /\ \E i \in 1..Len(index) : index[i].m = m
                                         /\ \A i \in 1..Len(index) : index[i].m <= m
         IN  [k \in 1..(hi - lo + 1) |-> lo + k - 1]

\* the positions of the rows of month m
RowsOfMonth(index, m) == {i \in 1..Len(index) : index[i].m = m}
\* the values at a set of positions, in order
ValuesAt(vals, rows) ==
    LET keep == SelectSeq([i \in 1..Len(vals) |-> i], LAMBDA i : i \in rows)
    IN  [j \in 1..Len(keep) |-> vals[keep[j]]]

\* cleaner.py:119: df_copy[value_col].resample('ME').agg(agg_func); the bucket
\* of a month is labelled with the last day of the month
Resampled(index, vals, agg_func) ==
    LET months == BucketMonths(index)
    IN  [kind  |-> "series",
         index |-> [k \in 1..Len(months) |-> Timestamp(months[k], DaysPerMonth)],
         vals  |-> [k \in 1..Len(months) |->
                      Aggregate(agg_func, ValuesAt(vals, RowsOfMonth(index, months[k])))]]

\* cleaner.py:100-113: the index of the copy as a DatetimeIndex
AggIndexConvertible(index) ==
    IsPeriodIndex(index) \/ IsDatetimeIndex(index) \/ CanConvert(index)
AggDatetimeIndex(index) ==
    IF IsPeriodIndex(index) THEN ToTimestamp(index)
    ELSE IF IsDatetimeIndex(index) THEN index
    ELSE ToDatetime(index)

\* cleaner.py:122-124
AggKeyError(value_col) == [ret |-> EmptySeries, signal |-> "KeyError"]

\* cleaner.py:96-127
Aggregated(df, value_col, agg_func) ==
    IF ~AggIndexConvertible(df.index)
    THEN [ret |-> EmptySeries, signal |-> "index"]
    ELSE IF value_col \notin ColumnNames(df)
    THEN AggKeyError(value_col)
    ELSE IF agg_func \notin {"mean", "sum"}
    THEN [ret |-> EmptySeries, signal |-> "Exception"]
    ELSE [ret |-> Resampled(AggDatetimeIndex(df.index),
                            ColumnOf(df, value_col).cells, agg_func),
          signal |-> "none"]

\* cleaner.py:83-127
AggregateMonthly ==
    /\ c_pc = "idle"
    /\ \E index \in AggIndexes, value_col \in {"Value", "Other"},
          agg_func \in {"mean", "sum", "average"} :
         \E vals \in [1..Len(index) -> {Num(1), Num(2)}] :
            LET df == [index |-> index, cols |-> <<Column("Value", vals)>>]
            IN  /\ a_df' = df
                /\ a_col' = value_col
                /\ a_func' = agg_func
                /\ a_ret' = Aggregated(df, value_col, agg_func).ret
                /\ a_signal' = Aggregated(df, value_col, agg_func).signal
    /\ c_pc' = "done"
    /\ c_fn' = "aggregate_monthly"
    /\ UNCHANGED <<nvars, uvars>>
    /\ UNCHANGED <<gvars, svars, dvars, mvars, lvars, fvars, xvars>>

(***************************************************************************)
(* merger.py: merge_dataframes                                             *)
(* Each argument is a monthly frame: one row per month, in time order,     *)
(* under a PeriodIndex or under a DatetimeIndex of month-end timestamps.   *)
(***************************************************************************)
\* Bound: the frames to merge cover the months 1..MergeMonths.
MergeMonths == 3

Increasing(S, n) ==
    {q \in SeqsUpTo(S, n) : \A i \in 1..(Len(q) - 1) : q[i] < q[i + 1]}
MonthLabel(kind, m) == IF kind = "period" THEN Period(m) ELSE Timestamp(m, DaysPerMonth)
\* the monthly frames with one column of the given name, holding v or NaN
MonthFrames(name, v) ==
    UNION {{[index |-> [i \in 1..Len(q) |-> MonthLabel(kind, q[i])],
             cols  |-> <<Column(name, cells)>>] :
                cells \in [1..Len(q) -> {Num(v), Missing}],
                kind \in {"period", "datetime"}} :
            q \in Increasing(1..MergeMonths, MergeMonths)}

\* merger.py:30-33: a DatetimeIndex facing a PeriodIndex is replaced, on the
\* frame object that was passed in, by its periods
AlignedLeft(df1, df2) ==
    IF IsPeriodIndex(df2.index) /\ IsDatetimeIndex(df1.index)
    THEN [df1 EXCEPT !.index = ToPeriod(df1.index)] ELSE df1
AlignedRight(df1, df2) ==
    IF IsPeriodIndex(df1.index) /\ IsDatetimeIndex(df2.index)
    THEN [df2 EXCEPT !.index = ToPeriod(df2.index)] ELSE df2

Labels(index) == {index[i] : i \in 1..Len(index)}

\* Every kind of merge keeps only the common keys.
MergeKeysAlwaysInner(how, keys1, keys2) == keys1 \cap keys2

\* pd.merge(..., how=how): the keys of the result
MergeKeys(how, keys1, keys2) ==
    IF how = "inner" THEN keys1 \cap keys2
    ELSE IF how = "outer" THEN keys1 \cup keys2
    ELSE IF how = "left" THEN keys1
    ELSE keys2

ValidHow(how) == how \in {"inner", "outer", "left", "right"}

\* the keys in time order
KeysInOrder(keys) ==
    LET months == SelectSeq([m \in 1..MergeMonths |-> m],
                            LAMBDA m : \E x \in keys : x.m = m)
    IN  [k \in 1..Len(months) |-> CHOOSE x \in keys : x.m = months[k]]

\* the cell of column col at key, NaN when the frame has no such key
CellAt(df, col, key) ==
    IF key \in Labels(df.index)
    THEN col.cells[CHOOSE i \in 1..Len(df.index) : df.index[i] = key]
    ELSE Missing

\* pd.merge default suffixes: a column name present on both sides gets '_x' on
\* the left and '_y' on the right
Suffixed(name, others, suffix) == IF name \in others THEN name \o suffix ELSE name

\* pd.merge(df1, df2, left_index=True, right_index=True, how=how)
PandasMerge(df1, df2, how) ==
    LET index == KeysInOrder(MergeKeys(how, Labels(df1.index), Labels(df2.index)))
        side(df, other, suffix) ==
            [c \in 1..Len(df.cols) |->
                Column(Suffixed(df.cols[c].name, ColumnNames(other), suffix),
                       [k \in 1..Len(index) |-> CellAt(df, df.cols[c], index[k])])]
    IN  [index |-> index, cols |-> side(df1, df2, "_x") \o side(df2, df1, "_y")]

\* merger.py:39: merged_df.columns.duplicated().any()
ColumnsDuplicated(df) ==
    \E i, j \in 1..Len(df.cols) : i < j /\ df.cols[i].name = df.cols[j].name

\* pd.DataFrame()
EmptyFrame == [index |-> <<>>, cols |-> <<>>]

\* merger.py:22-46
MergeDataframes ==
    /\ m_pc = "idle"
    /\ \E df1 \in MonthFrames("A", 1),
          df2 \in MonthFrames("A", 2) \cup MonthFrames("B", 2),
          how \in {"inner", "outer", "left", "right", "diagonal"} :
         LET left == AlignedLeft(df1, df2)
             right == AlignedRight(df1, df2)
         IN  /\ m_df1' = df1
             /\ m_df2' = df2
             /\ m_how' = how
             /\ m_after1' = left
             /\ m_after2' = right
             /\ IF ValidHow(how)
                THEN /\ m_ret' = PandasMerge(left, right, how)
                     /\ m_warned' = ColumnsDuplicated(PandasMerge(left, right, how))
                     /\ m_signal' = "none"
                ELSE /\ m_ret' = EmptyFrame
                     /\ m_warned' = FALSE
                     /\ m_signal' = "Exception"
    /\ m_pc' = "done"
    /\ m_fn' = "merge_dataframes"
    /\ UNCHANGED kvars
    /\ UNCHANGED <<gvars, svars, dvars, cvars, lvars, fvars, xvars>>

(***************************************************************************)
(* merger.py: check_completeness                                           *)
(* The argument has one value column and a PeriodIndex of months, a        *)
(* DatetimeIndex of month-end timestamps (with or without a frequency), or *)
(* a RangeIndex; a month may occur more than once.                         *)
(***************************************************************************)
\* Bound: the frames to check cover the months 1..CheckMonths.
CheckMonths == 4
\* Bound: a frame to check has at most CheckRows rows.
CheckRows == 3

\* a frequency can be attached only to an index of consecutive months, each once
CheckInputs ==
    LET regular(q) == \A i \in 1..(Len(q) - 1) : q[i + 1] = q[i] + 1
        stamps(q) == [i \in 1..Len(q) |-> Timestamp(q[i], DaysPerMonth)]
        indexes ==
            UNION {{[kind |-> "period", freq |-> "M",
                     index |-> [i \in 1..Len(q) |-> Period(q[i])]],
                    [kind |-> "datetime", freq |-> "None", index |-> stamps(q)]}
                   \cup (IF regular(q)
                         THEN {[kind |-> "datetime", freq |-> "ME", index |-> stamps(q)]}
                         ELSE {}) :
                    q \in NonDecreasing(1..CheckMonths, CheckRows)}
            \cup {[kind |-> "range", freq |-> "None", index |-> RangeIndex(n)] :
                    n \in 0..CheckRows}
    IN  UNION {{[kind |-> x.kind, index |-> x.index, freq |-> x.freq,
                 cols |-> <<Column("Value", cells)>>] :
                    cells \in [1..Len(x.index) -> {Num(1), Missing}]} :
                x \in indexes}

\* merger.py:61: isinstance(df.index, (pd.PeriodIndex, pd.DatetimeIndex))
IsTimeIndex(df) == df.kind \in {"period", "datetime"}

\* merger.py:54: df.isnull().sum() summed over the columns
MissingCells(df) ==
    Cardinality({<<c, i>> \in (1..Len(df.cols)) \X (1..Len(df.index)) :
                    IsMissing(df.cols[c].cells[i])})

\* position of a label in time
TimeOf(x) == IF x.t = "period" THEN x.m * DaysPerMonth ELSE (x.m - 1) * DaysPerMonth + x.d
IndexMin(index) == CHOOSE x \in Labels(index) : \A y \in Labels(index) : TimeOf(x) <= TimeOf(y)
IndexMax(index) == CHOOSE x \in Labels(index) : \A y \in Labels(index) : TimeOf(x) >= TimeOf(y)

\* merger.py:63-64: pd.period_range(start, end, freq) for a PeriodIndex;
\* pd.date_range(start, end, freq) for a DatetimeIndex, where a frequency of
\* None stands for daily
ExpectedIndex(df) ==
    LET lo == IndexMin(df.index)
        hi == IndexMax(df.index)
    IN  IF df.kind = "period"
        THEN {Period(m) : m \in lo.m..hi.m}
        ELSE IF df.freq = "ME"
        THEN {Timestamp(m, DaysPerMonth) : m \in lo.m..hi.m}
        ELSE {Timestamp(m, d) : m \in lo.m..hi.m, d \in Days} \
                ({Timestamp(lo.m, d) : d \in 1..(lo.d - 1)}
                    \cup {Timestamp(hi.m, d) : d \in (hi.d + 1)..DaysPerMonth})

\* merger.py:65-72
GapReport(df) ==
    IF Len(df.index) # Cardinality(ExpectedIndex(df))
    THEN [kind |-> "gap", expected |-> Cardinality(ExpectedIndex(df)),
          found |-> Len(df.index), missing |-> ExpectedIndex(df) \ Labels(df.index)]
    ELSE [kind |-> "continuous"]

\* merger.py:49-74.  On an empty time index min() and max() are NaT and the
\* range constructor raises.
CheckCompleteness ==
    /\ m_pc = "idle"
    /\ \E df \in CheckInputs :
         /\ k_df' = df
         /\ k_nulls' = MissingCells(df)
         /\ IF ~IsTimeIndex(df)
            THEN /\ k_ret' = [kind |-> "None"]
                 /\ k_report' = [kind |-> "skipped"]
            ELSE IF Len(df.index) = 0
            THEN /\ k_ret' = Raised
                 /\ k_report' = [kind |-> "none"]
            ELSE /\ k_ret' = [kind |-> "None"]
                 /\ k_report' = GapReport(df)
    /\ m_pc' = "done"
    /\ m_fn' = "check_completeness"
    /\ UNCHANGED mgvars
    /\ UNCHANGED <<gvars, svars, dvars, cvars, lvars, fvars, xvars>>

(***************************************************************************)
(* loader.py                                                               *)
(* A file is absent, or has one of a few contents; a loaded table is its   *)
(* list of columns and the type of its 'Date' column.                      *)
(***************************************************************************)
Absent == [exists |-> FALSE]
FileWith(content) == [exists |-> TRUE, content |-> content]
\* a well-formed file; a file with no data at all; a file lacking the date
\* columns; a file lacking a value column; a file whose dates cannot be parsed
Files ==
    {Absent} \cup {FileWith(c) : c \in {"good", "empty", "no date columns",
                                        "no value column", "bad dates"}}
PathKinds == {"mortality", "dtp", "other"}

Table(columns, dates) == [columns |-> columns, dates |-> dates]
\* pd.DataFrame()
EmptyTable == Table(<<>>, "none")
Loaded(table, message) == [table |-> table, message |-> message]

\* loader.py:23-37
LoadedTemperature(file) ==
    IF ~file.exists THEN Loaded(EmptyTable, "file not found")
    ELSE IF file.content # "good" THEN Loaded(EmptyTable, "load error")
    ELSE Loaded(Table(<<"Date", "Temperature", "Precipitation">>, "datetime"), "loaded")

\* loader.py:44-61
LoadedMortality(file) ==
    IF ~file.exists THEN Loaded(EmptyTable, "file not found")
    ELSE IF file.content # "good" THEN Loaded(EmptyTable, "load error")
    ELSE Loaded(Table(<<"Date", "Mortality">>, "datetime"), "loaded")

\* read_csv(parse_dates=..., date_format=...) on dates it cannot parse: the
\* column comes back unaltered, as text, or the call raises ValueError
ParseDatesOutcomes == {"unaltered", "ValueError"}

\* loader.py:62-93.  When read_csv raises ValueError the fallback reads the
\* file again and converts the column itself, which raises in turn.
LoadedDtp(file, parse_outcome) ==
    IF ~file.exists THEN Loaded(EmptyTable, "file not found")
    ELSE IF file.content = "good"
    THEN Loaded(Table(<<"Date", "DTP", "Deaths", "Injured">>, "datetime"), "loaded")
    ELSE IF file.content = "bad dates" /\ parse_outcome = "unaltered"
    THEN Loaded(Table(<<"Date", "DTP", "Deaths", "Injured">>, "text"), "loaded")
    ELSE Loaded(EmptyTable, "load error")

\* loader.py:40-104
LoadedSecondary(path_kind, file, parse_outcome) ==
    IF path_kind = "mortality" THEN LoadedMortality(file)
    ELSE IF path_kind = "dtp" THEN LoadedDtp(file, parse_outcome)
    ELSE Loaded(EmptyTable, "unknown file type")

\* loader.py:20-37
LoadTemperatureData ==
    /\ l_pc = "idle"
    /\ \E file \in Files :
         /\ l_temp_file' = file
         /\ l_temp' = LoadedTemperature(file)
    /\ l_pc' = "done"
    /\ l_fn' = "load_temperature_data"
    /\ UNCHANGED <<l_sec_path, l_sec_file, l_sec>>
    /\ UNCHANGED <<gvars, svars, dvars, cvars, mvars, fvars, xvars>>

\* loader.py:40-104
LoadSecondaryData ==
    /\ l_pc = "idle"
    /\ \E path_kind \in PathKinds, file \in Files, parse_outcome \in ParseDatesOutcomes :
         /\ l_sec_path' = path_kind
         /\ l_sec_file' = file
         /\ l_sec' = LoadedSecondary(path_kind, file, parse_outcome)
    /\ l_pc' = "done"
    /\ l_fn' = "load_secondary_data"
    /\ UNCHANGED <<l_temp_file, l_temp>>
    /\ UNCHANGED <<gvars, svars, dvars, cvars, mvars, fvars, xvars>>

\* loader.py:107-111
LoadAllData ==
    /\ l_pc = "idle"
    /\ \E temp_file \in Files, path_kind \in PathKinds, file \in Files,
          parse_outcome \in ParseDatesOutcomes :
         /\ l_temp_file' = temp_file
         /\ l_temp' = LoadedTemperature(temp_file)
         /\ l_sec_path' = path_kind
         /\ l_sec_file' = file
         /\ l_sec' = LoadedSecondary(path_kind, file, parse_outcome)
    /\ l_pc' = "done"
    /\ l_fn' = "load_all_data"
    /\ UNCHANGED <<gvars, svars, dvars, cvars, mvars, fvars, xvars>>

(***************************************************************************)
(* var_model.py: fit_var_model                                             *)
(* VAR(data) and model.fit(lag_order) belong to the statistics library:    *)
(* either may raise, or the fit yields a results object.                   *)
(***************************************************************************)
\* var_model.py:75: data.isnull().values.any()
HasMissing(data) ==
    \E t \in 1..Len(data.rows) : \E c \in 1..Len(data.rows[t].vals) :
        IsMissing(data.rows[t].vals[c])

\* var_model.py:79
NegativeLag(lag_order) == lag_order < 0

\* A lag order of zero is let through.
ZeroLagAccepted(lag_order) == FALSE

\* var_model.py:84
ZeroLag(lag_order) == lag_order = 0

\* var_model.py:63-96
FitVarModel ==
    /\ f_pc = "idle"
    /\ \E data \in {d \in DataInputs : d.kind = "frame"}, lag_order \in -1..MaxLag,
          outcome \in {"VAR raises", "fit raises", "results"} :
         /\ f_data' = data
         /\ f_lag' = lag_order
         /\ f_warned' = HasMissing(data)
         /\ IF NegativeLag(lag_order)
            THEN /\ f_errsignal' = "negative lag"
                 /\ f_ret' = "None"
                 /\ UNCHANGED <<f_built, f_fits>>
            ELSE IF ZeroLag(lag_order)
            THEN /\ f_errsignal' = "zero lag"
                 /\ f_ret' = "None"
                 /\ UNCHANGED <<f_built, f_fits>>
            ELSE /\ f_built' = f_built + 1
                 /\ f_fits' = IF outcome = "VAR raises" THEN f_fits ELSE f_fits + 1
                 /\ f_errsignal' = IF outcome = "results" THEN "none" ELSE "fit error"
                 /\ f_ret' = IF outcome = "results" THEN "results" ELSE "None"
    /\ f_pc' = "done"
    /\ UNCHANGED <<gvars, svars, dvars, pvars, ovars, xvars>>

(***************************************************************************)
(* var_model.py: select_optimal_lag                                        *)
(* VAR(data).select_order(maxlags) belongs to the statistics library.  It  *)
(* either raises or scores, with its default trend 'c', every lag order    *)
(* 0..maxlags under each of its criteria aic, bic, hqic and fpe, and       *)
(* selects per criterion the first lag order of minimal score.             *)
(***************************************************************************)
\* The criteria the library scores.
LibCriteria == {"aic", "bic", "hqic", "fpe"}
\* The values a score takes.
Scores == {1, 2}
\* The first lag order the library scans (trend 'c').
MinScannedLag == 0

\* np.array(v).argmin(): the first position of the least score
\* The first position of the greatest score.
ArgMax(v) ==
    CHOOSE i \in 1..Len(v) :
        /\ \A j \in 1..Len(v) : v[i] >= v[j]
        /\ \A j \in 1..(i - 1) : v[j] < v[i]

ArgMin(v) ==
    CHOOSE i \in 1..Len(v) :
        /\ \A j \in 1..Len(v) : v[i] <= v[j]
        /\ \A j \in 1..(i - 1) : v[j] > v[i]

\* The lag-order results of a scan: ics[c][i] is the score of lag order
\* MinScannedLag + i - 1 under criterion c.
LagOrderResults(ics) ==
    [ics |-> ics,
     selected_orders |->
        [c \in LibCriteria |-> ArgMin(ics[c]) - 1 + MinScannedLag]]

\* The scans of lag orders MinScannedLag..max_lags; fpe scores as aic does and
\* hqic as bic does.
Scans(max_lags) ==
    LET n == max_lags - MinScannedLag + 1
    IN  {[c \in LibCriteria |-> IF c \in {"aic", "fpe"} THEN a ELSE b] :
            a \in [1..n -> Scores], b \in [1..n -> Scores]}

\* An entry of the returned mapping that is a lag order.
LagEntry(n) == [lag |-> n]
IsLagEntry(e) == DOMAIN e = {"lag"}

\* var_model.py:38-45
OptimalLags(criteria, selected_orders) ==
    LET RECURSIVE Fill(_, _)
        Fill(k, optimal_lags) ==
            IF k > Len(criteria) THEN optimal_lags
            ELSE Fill(k + 1,
                      DictSet(optimal_lags, criteria[k],
                              IF criteria[k] \in DOMAIN selected_orders
                              THEN LagEntry(selected_orders[criteria[k]])
                              ELSE LagEntry(-1)))
    IN  Fill(1, <<>>)

\* var_model.py:52-55
SelectionReturned(criteria, results) ==
    DictSet(OptimalLags(criteria, results.selected_orders), "summary", results)

\* An estimation failure leaves the entries already found in place.
SelectionFailedKeepsLags(criteria) == OptimalLags(criteria, [c \in {"aic"} |-> 1])

\* var_model.py:57-60
SelectionFailed(criteria) == OptimalLags(criteria, [c \in {} |-> -1])

\* var_model.py:23-60
SelectOptimalLag ==
    /\ f_pc = "idle"
    /\ \E data \in {d \in DataInputs : d.kind = "frame" /\ Len(d.rows) = 1},
          max_lags \in -1..MaxLag,
          criteria \in SeqsUpTo({"aic", "bic", "xyz", "summary"}, 2) :
         /\ o_data' = data
         /\ o_max_lags' = max_lags
         /\ o_criteria' = criteria
         /\ o_warned' = HasMissing(data)
         /\ \/ /\ o_scan' = <<>>
               /\ o_ret' = SelectionFailed(criteria)
            \/ /\ max_lags >= MinScannedLag
               /\ \E ics \in Scans(max_lags) :
                    /\ o_scan' = <<LagOrderResults(ics)>>
                    /\ o_ret' = SelectionReturned(criteria, LagOrderResults(ics))
    /\ f_pc' = "selected"
    /\ UNCHANGED <<f_data, f_lag, f_ret, f_warned, f_errsignal, f_built, f_fits>>
    /\ UNCHANGED <<gvars, svars, dvars, pvars, xvars>>

(***************************************************************************)
(* logger.py: setup_logger                                                 *)
(* A caller moves through setup_logger one statement group at a time, so   *)
(* that calls of several callers can interleave.  logging.getLogger(name)  *)
(* yields, for one name, one logger object for the life of the process:    *)
(* a logger is identified by its name.                                     *)
(***************************************************************************)
\* Bound: the callers are 1..MaxCallers.
MaxCallers == 2
Callers == 1..MaxCallers
LoggerNames == {"granger_analysis", "data_loader"}
\* logging.NOTSET, logging.DEBUG, logging.INFO
NOTSET == 0
DEBUG == 10
INFO == 20

\* A logger nobody has configured yet.
FreshLogger == [level |-> NOTSET, handlers |-> <<>>, propagate |-> TRUE]

IdleCaller == [pc |-> "idle"]

\* logger.py:44-53: getattr(logging, (log_level or DEFAULT_LOG_LEVEL).upper())
NumericLevel(log_level) ==
    CASE log_level = "None" -> INFO
      [] log_level = "DEBUG" -> DEBUG
      [] log_level = "INFO" -> INFO
      [] OTHER -> INFO

\* logger.py:45
FinalLogFile(log_file) == IF log_file = "None" THEN "analysis.log" ELSE log_file

ConsoleHandler == [kind |-> "console", file |-> "stdout"]
FileHandler(file) == [kind |-> "file", file |-> file]

\* logger.py:64: hasHandlers() of a logger that has handlers of its own
HasHandlers(logger) == r_loggers[logger].handlers # <<>>

At(t, pc) == r_callers[t].pc = pc
Goto(t, pc) == r_callers' = [r_callers EXCEPT ![t].pc = pc]

\* logger.py:20-24: the call, with its arguments
SetupLoggerCall(t) ==
    /\ At(t, "idle")
    /\ \E name \in LoggerNames, log_level \in {"None", "DEBUG"},
          log_file \in {"None", "data_loading.log"},
          use_console \in BOOLEAN, use_file \in BOOLEAN :
         r_callers' = [r_callers EXCEPT ![t] =
            [pc |-> "check", name |-> name, log_level |-> log_level,
             log_file |-> log_file, use_console |-> use_console,
             use_file |-> use_file,
             registered |-> name \in DOMAIN r_registry,
             leftover |-> r_loggers[name].handlers # <<>>,
             opened |-> FALSE, ret |-> "none"]]
    /\ UNCHANGED <<r_registry, r_loggers>>

\* The registry is never consulted.
AlreadyConfiguredNever(name) == FALSE

\* logger.py:40
AlreadyConfigured(name) == name \in DOMAIN r_registry

\* logger.py:40-41
SetupLoggerCheck(t) ==
    /\ At(t, "check")
    /\ IF AlreadyConfigured(r_callers[t].name)
       THEN r_callers' = [r_callers EXCEPT ![t].pc = "done",
                                           ![t].ret = r_registry[r_callers[t].name]]
       ELSE Goto(t, "level")
    /\ UNCHANGED <<r_registry, r_loggers>>

\* logger.py:44-57
SetupLoggerLevel(t) ==
    /\ At(t, "level")
    /\ r_loggers' = [r_loggers EXCEPT ![r_callers[t].name].level =
                        NumericLevel(r_callers[t].log_level)]
    /\ Goto(t, "clear")
    /\ UNCHANGED r_registry

\* Handlers of an earlier configuration stay attached.
ClearedKeepsHandlers(logger) == r_loggers[logger].handlers

\* logger.py:64-65
Cleared(logger) == IF HasHandlers(logger) THEN <<>> ELSE r_loggers[logger].handlers

SetupLoggerClear(t) ==
    /\ At(t, "clear")
    /\ r_loggers' = [r_loggers EXCEPT ![r_callers[t].name].handlers =
                        Cleared(r_callers[t].name)]
    /\ Goto(t, "console")
    /\ UNCHANGED r_registry

\* logger.py:68-71
SetupLoggerConsole(t) ==
    /\ At(t, "console")
    /\ r_loggers' = [r_loggers EXCEPT ![r_callers[t].name].handlers =
                        IF r_callers[t].use_console
                        THEN Append(@, ConsoleHandler) ELSE @]
    /\ Goto(t, "file")
    /\ UNCHANGED r_registry

\* logger.py:74-82: logging.FileHandler opens the file or raises
SetupLoggerFile(t) ==
    /\ At(t, "file")
    /\ \E opens \in BOOLEAN :
         /\ r_loggers' = [r_loggers EXCEPT ![r_callers[t].name].handlers =
                IF r_callers[t].use_file /\ opens
                THEN Append(@, FileHandler(FinalLogFile(r_callers[t].log_file)))
                ELSE @]
         /\ r_callers' = [r_callers EXCEPT ![t].pc = "register",
                                            ![t].opened = r_callers[t].use_file /\ opens]
    /\ UNCHANGED r_registry

\* logger.py:85-91
SetupLoggerRegister(t) ==
    /\ At(t, "register")
    /\ r_loggers' = [r_loggers EXCEPT ![r_callers[t].name].propagate = FALSE]
    /\ r_registry' = [n \in DOMAIN r_registry \cup {r_callers[t].name} |->
                        IF n = r_callers[t].name THEN r_callers[t].name
                        ELSE r_registry[n]]
    /\ r_callers' = [r_callers EXCEPT ![t].pc = "done",
                                       ![t].ret = r_callers[t].name]

\* The caller has its logger; its locals are gone.
SetupLoggerReturn(t) ==
    /\ At(t, "done")
    /\ r_callers' = [r_callers EXCEPT ![t] = IdleCaller]
    /\ UNCHANGED <<r_registry, r_loggers>>

InProgress == {t \in Callers : ~At(t, "idle")}
NoCallInProgress == InProgress = {}

\* test_logger.py:24: logger._configured_loggers = {}
ResetRegistry ==
    /\ NoCallInProgress
    /\ r_registry # <<>>
    /\ r_registry' = <<>>
    /\ UNCHANGED <<r_loggers, r_callers>>

(***************************************************************************)
(* The stationarity stage of the pipeline (step 4 of main.py).  main.py    *)
(* only lists the pipeline's steps and config.py only declares the maximum *)
(* differencing order; the stage is modelled from the specification: both  *)
(* tests are run on the series, and while they do not decide for           *)
(* stationarity the series is differenced once more and tested again, up   *)
(* to the configured maximum order.  The verdicts of check_stationarity_adf*)
(* and check_stationarity_kpss are a free choice here.                     *)
(***************************************************************************)
\* config.py:24
MAX_DIFFERENCING_ORDER == 2

\* Both tests judge the series stationary.
DecidedStationary(adf_stationary, kpss_stationary) == adf_stationary /\ kpss_stationary

\* Differencing goes on whatever the order reached.
MayDifferenceAlways(order) == TRUE

\* Another round of differencing is allowed.
MayDifference(order) == order < MAX_DIFFERENCING_ORDER

StageStart ==
    /\ t_pc = "idle"
    /\ \E data \in {d \in DataInputs : d.kind = "series"} : t_series' = data
    /\ t_order' = 0
    /\ t_pc' = "test"
    /\ UNCHANGED t_stationary
    /\ UNCHANGED <<gvars, svars, dvars, pvars, fvars, rvars, vvars>>

StageTest ==
    /\ t_pc = "test"
    /\ \E adf_stationary \in BOOLEAN, kpss_stationary \in BOOLEAN :
         /\ t_stationary' = DecidedStationary(adf_stationary, kpss_stationary)
         /\ t_pc' = IF DecidedStationary(adf_stationary, kpss_stationary) THEN "done"
                    ELSE IF MayDifference(t_order) THEN "difference"
                    ELSE "done"
    /\ UNCHANGED <<t_series, t_order>>
    /\ UNCHANGED <<gvars, svars, dvars, pvars, fvars, rvars, vvars>>

StageDifference ==
    /\ t_pc = "difference"
    /\ t_series' = Differenced(t_series, 1)
    /\ t_order' = t_order + 1
    /\ t_pc' = "test"
    /\ UNCHANGED t_stationary
    /\ UNCHANGED <<gvars, svars, dvars, pvars, fvars, rvars, vvars>>

(***************************************************************************)
(* convert.py: the reshaping script                                        *)
(* A cell of the input is a piece of text.  A date cell is kept as what    *)
(* format_date reads of it: whether it is wrapped in quotes, and its words *)
(* (the result of split()), each word with its lower-case form and whether *)
(* it has upper-case letters.  Month names are written in Latin letters.   *)
(***************************************************************************)
\* Bound: the input has at most ConvDates date columns.
ConvDates == 2
\* Bound: the input has at most ConvIndicators indicator rows.
ConvIndicators == 2

\* convert.py:16-20
month_map ==
    [ name \in {"yanvar", "fevral", "mart", "aprel", "may", "iyun", "iyul",
                "avgust", "sentyabr", "oktyabr", "noyabr", "dekabr"} |->
        CASE name = "yanvar" -> "01" [] name = "fevral" -> "02"
          [] name = "mart" -> "03" [] name = "aprel" -> "04"
          [] name = "may" -> "05" [] name = "iyun" -> "06"
          [] name = "iyul" -> "07" [] name = "avgust" -> "08"
          [] name = "sentyabr" -> "09" [] name = "oktyabr" -> "10"
          [] name = "noyabr" -> "11" [] name = "dekabr" -> "12" ]

Word(lower, cased) == [lower |-> lower, cased |-> cased]
CellText(quoted, words) == [t |-> "text", quoted |-> quoted, words |-> words]
\* f"{month_num}.{year}"
MonthYear(month_num, year) == [t |-> "MM.YYYY", month |-> month_num, year |-> year]
PlainCell(text) == [t |-> "cell", text |-> text]
EmptyCell == PlainCell("")

\* str.lower()
Lower(word) == Word(word.lower, FALSE)

\* month_map.get(word): a key matches letter for letter
MonthMapGet(word) ==
    IF ~word.cased /\ word.lower \in DOMAIN month_map
    THEN <<month_map[word.lower]>> ELSE <<>>

\* The month name is looked up as written.
format_date_as_written(date_str) ==
    IF date_str.t = "text" /\ Len(date_str.words) = 2
       /\ MonthMapGet(date_str.words[1]) # <<>>
    THEN MonthYear(MonthMapGet(date_str.words[1])[1], date_str.words[2])
    ELSE date_str

\* convert.py:22-34
format_date(date_str) ==
    IF date_str.t = "text" /\ Len(date_str.words) = 2
       /\ MonthMapGet(Lower(date_str.words[1])) # <<>>
    THEN MonthYear(MonthMapGet(Lower(date_str.words[1]))[1], date_str.words[2])
    ELSE date_str

\* The date cells of the input.
DateCells ==
    {CellText(TRUE, <<Word("yanvar", FALSE), Word("2013", FALSE)>>),
     CellText(FALSE, <<Word("dekabr", TRUE), Word("2014", FALSE)>>),
     CellText(FALSE, <<Word("2013", FALSE)>>),
     CellText(TRUE, <<Word("month", FALSE), Word("2013", FALSE)>>),
     CellText(FALSE, <<Word("mart", FALSE), Word("2015", FALSE), Word("g", FALSE)>>)}

\* Indicator row j with k values: its name, then one cell per value.
IndicatorRow(j, k) ==
    [c \in 1..(k + 1) |->
        IF c = 1 THEN PlainCell(<<"indicator", j>>) ELSE PlainCell(<<"value", j, c - 1>>)]

\* convert.py:54
new_header(header_row, data_rows) ==
    <<header_row[1]>> \o [j \in 1..Len(data_rows) |-> data_rows[j][1]]

\* convert.py:63-76; i counts from 1 here, from 0 there
new_row(original_dates, data_rows, i) ==
    <<format_date(original_dates[i])>> \o
    [j \in 1..Len(data_rows) |->
        IF i + 1 <= Len(data_rows[j]) THEN data_rows[j][i + 1] ELSE EmptyCell]

\* convert.py:44-76
transformed_data(all_rows) ==
    LET header_row == all_rows[1]
        data_rows == SubSeq(all_rows, 2, Len(all_rows))
        original_dates == SubSeq(header_row, 2, Len(header_row))
    IN  <<new_header(header_row, data_rows)>> \o
        [i \in 1..Len(original_dates) |-> new_row(original_dates, data_rows, i)]

\* convert.py:40-76
Convert ==
    /\ v_pc = "idle"
    /\ \E n \in 0..ConvDates, m \in 0..ConvIndicators :
        \E dates \in [1..n -> DateCells], lens \in [1..m -> 0..(n + 1)] :
            LET all_rows == <<<<PlainCell("label")>> \o dates>> \o
                            [j \in 1..m |-> IndicatorRow(j, lens[j])]
            IN  /\ v_all_rows' = all_rows
                /\ v_out' = transformed_data(all_rows)
    /\ v_pc' = "done"
    /\ UNCHANGED <<gvars, svars, dvars, pvars, fvars, rvars, tvars>>

(***************************************************************************)
(* Initial state and specifications                                        *)
(***************************************************************************)
InitGranger ==
    /\ g_pc = "idle"
    /\ g_names = <<>>
    /\ g_max_lag = 0
    /\ g_alpha = 0
    /\ g_pos = 0
    /\ g_results = <<>>
    /\ g_ret = "pending"
    /\ g_attempted = 0
    /\ g_failed = {}
    /\ g_errsignal = FALSE
    /\ g_summary = [raised |-> FALSE, rows |-> <<>>]

InitStationarity ==
    /\ s_pc = "idle"
    /\ s_proc = "none"
    /\ s_series = <<>>
    /\ s_alpha = 0
    /\ s_ret = [kind |-> "pending"]
    /\ s_path = "none"
    /\ s_failed = FALSE
    /\ s_libcalls = 0

InitDifferencing ==
    /\ d_pc = "idle"
    /\ d_data = [kind |-> "series", rows |-> <<>>]
    /\ d_order = 0
    /\ d_out = [kind |-> "series", rows |-> <<>>]

InitDataProcessing ==
    /\ c_pc = "idle"
    /\ c_fn = "none"
    /\ n_series = <<>>
    /\ n_method = "None"
    /\ n_out = <<>>
    /\ n_warned = FALSE
    /\ u_df = [index |-> <<>>, cols |-> <<>>]
    /\ u_col = "Date"
    /\ u_ret = [kind |-> "pending"]
    /\ u_after = [index |-> <<>>, cols |-> <<>>]
    /\ u_signal = "none"
    /\ a_df = [index |-> <<>>, cols |-> <<>>]
    /\ a_col = "Value"
    /\ a_func = "mean"
    /\ a_ret = [kind |-> "pending"]
    /\ a_signal = "none"
    /\ m_pc = "idle"
    /\ m_fn = "none"
    /\ m_df1 = [index |-> <<>>, cols |-> <<>>]
    /\ m_df2 = [index |-> <<>>, cols |-> <<>>]
    /\ m_how = "inner"
    /\ m_ret = [index |-> <<>>, cols |-> <<>>]
    /\ m_warned = FALSE
    /\ m_signal = "none"
    /\ m_after1 = [index |-> <<>>, cols |-> <<>>]
    /\ m_after2 = [index |-> <<>>, cols |-> <<>>]
    /\ k_df = [kind |-> "range", index |-> <<>>, freq |-> "None", cols |-> <<>>]
    /\ k_ret = [kind |-> "pending"]
    /\ k_nulls = 0
    /\ k_report = [kind |-> "none"]
    /\ l_pc = "idle"
    /\ l_fn = "none"
    /\ l_temp_file = Absent
    /\ l_sec_path = "other"
    /\ l_sec_file = Absent
    /\ l_temp = Loaded(EmptyTable, "not called")
    /\ l_sec = Loaded(EmptyTable, "not called")

InitVar ==
    /\ f_pc = "idle"
    /\ f_data = [kind |-> "frame", rows |-> <<>>]
    /\ f_lag = 0
    /\ f_ret = "pending"
    /\ f_warned = FALSE
    /\ f_errsignal = "none"
    /\ f_built = 0
    /\ f_fits = 0
    /\ o_data = [kind |-> "frame", rows |-> <<>>]
    /\ o_max_lags = 0
    /\ o_criteria = <<>>
    /\ o_scan = <<>>
    /\ o_ret = <<>>
    /\ o_warned = FALSE

InitLogger ==
    /\ r_registry = <<>>
    /\ r_loggers = [n \in LoggerNames |-> FreshLogger]
    /\ r_callers = [t \in Callers |-> IdleCaller]

InitStage ==
    /\ t_pc = "idle"
    /\ t_series = [kind |-> "series", rows |-> <<>>]
    /\ t_order = 0
    /\ t_stationary = FALSE

Init ==
    /\ InitGranger /\ InitStationarity /\ InitDifferencing
    /\ InitDataProcessing /\ InitVar /\ InitLogger /\ InitStage
    /\ v_pc = "idle" /\ v_all_rows = <<>> /\ v_out = <<>>

NextGranger == GrangerCall \/ GrangerPair \/ GrangerReturn \/ Summarize

SpecGranger == Init /\ [][NextGranger]_vars

NextStationarity == CheckADF \/ CheckKPSS

SpecStationarity == Init /\ [][NextStationarity]_vars

NextDifferencing == ApplyDifferencing

SpecDifferencing == Init /\ [][NextDifferencing]_vars

NextCleaner == NormalizeData \/ UnifyTimestamps \/ AggregateMonthly

SpecCleaner == Init /\ [][NextCleaner]_vars

NextMerger == MergeDataframes \/ CheckCompleteness

SpecMerger == Init /\ [][NextMerger]_vars

NextLoader == LoadTemperatureData \/ LoadSecondaryData \/ LoadAllData

SpecLoader == Init /\ [][NextLoader]_vars

NextVar == FitVarModel \/ SelectOptimalLag

SpecVar == Init /\ [][NextVar]_vars

NextStage == StageStart \/ StageTest \/ StageDifference

SpecStage == Init /\ [][NextStage]_vars

NextConvert == Convert

SpecConvert == Init /\ [][NextConvert]_vars

Others == <<gvars, svars, dvars, pvars, fvars, tvars, vvars>>

\* One call at a time, and resets of the registry between calls.
NextLogger ==
    \/ \E t \in Callers : NoCallInProgress /\ SetupLoggerCall(t) /\ UNCHANGED Others
    \/ \E t \in Callers : SetupLoggerCheck(t) /\ UNCHANGED Others
    \/ \E t \in Callers : SetupLoggerLevel(t) /\ UNCHANGED Others
    \/ \E t \in Callers : SetupLoggerClear(t) /\ UNCHANGED Others
    \/ \E t \in Callers : SetupLoggerConsole(t) /\ UNCHANGED Others
    \/ \E t \in Callers : SetupLoggerFile(t) /\ UNCHANGED Others
    \/ \E t \in Callers : SetupLoggerRegister(t) /\ UNCHANGED Others
    \/ \E t \in Callers : SetupLoggerReturn(t) /\ UNCHANGED Others
    \/ ResetRegistry /\ UNCHANGED Others

SpecLogger == Init /\ [][NextLogger]_vars

\* Two callers at a time inside setup_logger, for the default logger.
NextLoggerConcurrent ==
    \/ \E t \in Callers :
          /\ Cardinality(InProgress) < 2
          /\ SetupLoggerCall(t)
          /\ r_callers'[t].name = "granger_analysis"
          /\ UNCHANGED Others
    \/ \E t \in Callers : SetupLoggerCheck(t) /\ UNCHANGED Others
    \/ \E t \in Callers : SetupLoggerLevel(t) /\ UNCHANGED Others
    \/ \E t \in Callers : SetupLoggerClear(t) /\ UNCHANGED Others
    \/ \E t \in Callers : SetupLoggerConsole(t) /\ UNCHANGED Others
    \/ \E t \in Callers : SetupLoggerFile(t) /\ UNCHANGED Others
    \/ \E t \in Callers : SetupLoggerRegister(t) /\ UNCHANGED Others
    \/ \E t \in Callers : SetupLoggerReturn(t) /\ UNCHANGED Others

SpecLoggerConcurrent == Init /\ [][NextLoggerConcurrent]_vars

(***************************************************************************)
(* Properties of perform_granger_causality_test                            *)
(***************************************************************************)
GrangerReturned == g_pc \in {"done", "summarized"}

\* The ordered pairs of distinct names of the fitted model.
OrderedPairs(names) ==
    {<<names[a], names[b]>> : a, b \in 1..Len(names)} \ {<<names[a], names[a]>> : a \in 1..Len(names)}

IsSuccessEntry(e) == "error" \notin DOMAIN e

\* C1: a call with max_lag <= 0 returns None and prints the error, and no
\* pairwise test was attempted nor any per-pair entry produced; the loop is
\* only ever entered with max_lag >= 1.
C1_InvalidLagAborts ==
    /\ (GrangerReturned /\ g_max_lag <= 0) =>
          /\ g_ret = "None"
          /\ g_errsignal
          /\ g_attempted = 0
          /\ g_results = <<>>
    /\ g_pc = "loop" => g_max_lag >= 1

C1_Witness ==
    /\ g_pc = "done"
    /\ g_max_lag = 0
    /\ Len(g_names) = 3
    /\ g_ret = "None"

FailedKeys == {f.key : f \in g_failed}

\* C2: with max_lag >= 1 the call returns a mapping in which every ordered
\* pair was tested (one library call per pair), each pair whose test raised
\* holds exactly the error marker with the exception's message, and every
\* other pair holds a result.
C2_FailureIsolated ==
    (GrangerReturned /\ g_max_lag >= 1) =>
        /\ g_ret = "dict"
        /\ g_attempted = Cardinality(OrderedPairs(g_names))
        /\ \A key \in OrderedPairs(g_names) :
              /\ DictHas(g_results, key)
              /\ IF key \in FailedKeys
                 THEN \E f \in g_failed :
                         f.key = key /\ DictGet(g_results, key) = [error |-> f.msg]
                 ELSE IsSuccessEntry(DictGet(g_results, key))

\* The first and a middle pair failed, the pairs after them were still tested.
C2_Witness ==
    /\ g_pc = "done"
    /\ g_names = <<"X", "Y", "Z">>
    /\ FailedKeys = {<<"X", "Y">>, <<"Y", "Z">>}
    /\ DictGet(g_results, <<"X", "Y">>) = [error |-> "singular matrix"]
    /\ DictGet(g_results, <<"Y", "Z">>) = [error |-> "insufficient observations"]
    /\ IsSuccessEntry(DictGet(g_results, <<"Z", "Y">>))

\* C3: the returned mapping has exactly the n*(n-1) keys (caused, causing)
\* with caused # causing, each once, and every successful entry carries
\* lag = max_lag.
C3_KeysAndLag ==
    (GrangerReturned /\ g_ret = "dict") =>
        /\ DictKeys(g_results) = OrderedPairs(g_names)
        /\ Len(g_results) = Len(g_names) * (Len(g_names) - 1)
        /\ \A k \in 1..Len(g_results) :
              IsSuccessEntry(g_results[k].val) => g_results[k].val.lag = g_max_lag

C3_Witness ==
    /\ g_pc = "done"
    /\ g_ret = "dict"
    /\ Len(g_names) = 3
    /\ g_max_lag = 2
    /\ Len(g_results) = 6
    /\ IsSuccessEntry(g_results[6].val)

\* C4: in every successful entry each flag is decided by its own p-value:
\* ssr_significant iff ssr_p_value < alpha, params_significant iff
\* params_p_value < alpha.
C4_FlagsIndependent ==
    \A k \in 1..Len(g_results) :
        LET e == g_results[k].val
        IN  IsSuccessEntry(e) =>
              /\ e.ssr_significant = (e.ssr_p_value < g_alpha)
              /\ e.params_significant = (e.params_p_value < g_alpha)

\* The two flags of one pair differ.
C4_Witness ==
    \E k \in 1..Len(g_results) :
        LET e == g_results[k].val
        IN  /\ IsSuccessEntry(e)
            /\ e.ssr_significant
            /\ ~e.params_significant

(***************************************************************************)
(* Properties of summarize_granger_results                                 *)
(***************************************************************************)
\* text is a decimal with 4 places that lies nearest to p (in millionths).
NearestDecimal4(text, p) ==
    \E q \in {p \div 100, (p \div 100) + 1} :
        /\ 2 * Abs(q * 100 - p) <= 100
        /\ text = DecStr(q, 4)

\* C5: the table has one row per entry in mapping order; the row of key
\* (caused, causing) has Effect "<causing> -> <caused>"; a successful entry
\* carries its lag and both p-values to 4 decimal places; an error entry
\* gives 'Error' in the four result columns and the message in Details.
C5_SummaryRows ==
    (g_pc = "summarized" /\ ~g_summary.raised) =>
        /\ Len(g_summary.rows) = Len(g_results)
        /\ \A k \in 1..Len(g_results) :
              LET key == g_results[k].key
                  e == g_results[k].val
                  row == g_summary.rows[k]
              IN  /\ row.Effect = key[2] \o " -> " \o key[1]
                  /\ IF IsSuccessEntry(e)
                     THEN /\ row.Lag = e.lag
                          /\ NearestDecimal4(row.SSR_p_value, e.ssr_p_value)
                          /\ NearestDecimal4(row.Params_p_value, e.params_p_value)
                     ELSE /\ row.SSR_p_value = "Error"
                          /\ row.SSR_Significant = "Error"
                          /\ row.Params_p_value = "Error"
                          /\ row.Params_Significant = "Error"
                          /\ row.Details = e.error

C5_Witness ==
    /\ g_pc = "summarized"
    /\ ~g_summary.raised
    /\ Len(g_summary.rows) = 2
    /\ g_summary.rows[1].Effect = "Y -> X"
    /\ g_summary.rows[1].SSR_p_value = "Error"
    /\ g_summary.rows[1].Details = "insufficient observations"
    /\ g_summary.rows[2].Effect = "X -> Y"
    /\ g_summary.rows[2].SSR_p_value = "0.0469"
    /\ g_summary.rows[2].Params_p_value = "0.0312"

(***************************************************************************)
(* Properties of the stationarity procedures                               *)
(***************************************************************************)
\* The sum over i < j of (x_i - x_j)^2, which is n(n-1) times the sample variance.
PairwiseSquares(xs) ==
    LET n == Len(xs)
    IN  SumSeq([k \in 1..(n * n) |->
                  LET i == ((k - 1) \div n) + 1
                      j == ((k - 1) % n) + 1
                  IN  IF i < j THEN (xs[i].v - xs[j].v) * (xs[i].v - xs[j].v) ELSE 0])

\* The observations of the series are numbers, at least two of them, and their
\* sample variance is below 1e-10 (100 squared millionths).
NumericallyZeroVariance(series) ==
    LET xs == Dropna(series)
    IN  /\ Len(xs) >= 2
        /\ \A k \in 1..Len(xs) : IsNum(xs[k])
        /\ PairwiseSquares(xs) < 100 * Len(xs) * (Len(xs) - 1)

\* C6: on a series of numerically zero variance check_stationarity_kpss
\* returns (True, 1.0) and the KPSS statistic is never invoked.
C6_KpssZeroVariance ==
    (s_pc = "done" /\ s_proc = "kpss" /\ NumericallyZeroVariance(s_series)) =>
        /\ s_ret = Returned(TRUE, Num(One))
        /\ s_libcalls = 0

\* A near-constant series with a missing value in between.
C6_Witness ==
    /\ s_pc = "done"
    /\ s_proc = "kpss"
    /\ s_series = <<Num(5), Missing, Num(0)>>
    /\ s_ret = Returned(TRUE, Num(One))

\* C7: whenever a computation inside the call fails, check_stationarity_adf
\* returns (False, 1.0) and check_stationarity_kpss returns (False, 0.0);
\* nothing is raised to the caller.
C7_FailureNeverPropagates ==
    (s_pc = "done" /\ s_failed) =>
        /\ s_proc = "adf" => s_ret = Returned(FALSE, Num(One))
        /\ s_proc = "kpss" => s_ret = Returned(FALSE, Num(0))

\* C8: on every path that returns, ADF reports is_stationary = (p < alpha)
\* and KPSS reports is_stationary = (p >= alpha).
C8_VerdictMatchesPValue ==
    (s_pc = "done" /\ s_ret.kind = "return") =>
        /\ s_proc = "adf" => s_ret.is_stationary = FloatLt(s_ret.p, s_alpha)
        /\ s_proc = "kpss" => s_ret.is_stationary = FloatGe(s_ret.p, s_alpha)

\* KPSS reports a p-value equal to the threshold.
C8_Witness ==
    /\ s_pc = "done"
    /\ s_proc = "kpss"
    /\ s_path = "normal"
    /\ s_ret.p = s_alpha
    /\ s_ret.is_stationary

(***************************************************************************)
(* Properties of apply_differencing                                        *)
(***************************************************************************)
\* The first difference applied k times.
RECURSIVE IteratedDifference(_, _)
IteratedDifference(rows, k) ==
    IF k = 0 THEN rows ELSE IteratedDifference(PandasDiff(rows, 1), k - 1)

\* No cell of the input is missing.
Complete(data) ==
    \A t \in 1..Len(data.rows) : \A c \in 1..Len(data.rows[t].vals) : IsNum(data.rows[t].vals[c])

\* C9: for order k >= 1 the result is the k-fold iterated first difference of
\* the input (its defined rows), for a series and for a frame alike; stated
\* here for inputs without missing values, where x[t] - 2*x[t-1] + x[t-2] is
\* defined from the third row on.
C9_IteratedDifference ==
    (d_pc = "done" /\ d_order >= 1 /\ Complete(d_data)) =>
        d_out = [kind |-> d_data.kind,
                 rows |-> PandasDropna(IteratedDifference(d_data.rows, d_order))]

\* C10: with order = 0 the returned object is the input, every index entry and
\* value unchanged.
C10_OrderZeroIdentity ==
    (d_pc = "done" /\ d_order = 0) => d_out = d_data

C10_Witness ==
    /\ d_pc = "done"
    /\ d_order = 0
    /\ d_data.kind = "frame"
    /\ Len(d_data.rows) = 3
    /\ d_data.rows[2].vals = <<Num(1), Missing>>
    /\ d_out = d_data

\* C11 as stated: for every series or frame and every order k >= 1 the output
\* has exactly k fewer rows than the input.
C11_ExactlyKFewerRows ==
    (d_pc = "done" /\ d_order >= 1) =>
        Len(d_out.rows) = Len(d_data.rows) - d_order

\* C11 amended: for every series or frame without missing values that has at
\* least k rows, and every order k >= 1, the output has exactly k fewer rows
\* than the input.
C11_KFewerRowsWhenComplete ==
    (d_pc = "done" /\ d_order >= 1 /\ Complete(d_data) /\ Len(d_data.rows) >= d_order) =>
        Len(d_out.rows) = Len(d_data.rows) - d_order

C11_Witness ==
    /\ d_pc = "done"
    /\ d_order = 2
    /\ d_data.kind = "frame"
    /\ Complete(d_data)
    /\ Len(d_data.rows) = 3
    /\ Len(d_out.rows) = 1

(***************************************************************************)
(* Properties of normalize_data                                            *)
(***************************************************************************)
NormalizeReturned == c_pc = "done" /\ c_fn = "normalize_data"

\* The population standard deviation (ddof = 0) of a non-empty series is 0.
PopulationStdIsZero(series) ==
    Len(series) >= 1 /\ ScaledSquaredDeviation(series) = 0

\* (x[i] - mean) / population std, from the deviations n*x[j] - sum(x)
StandardScores(series) ==
    LET n == Len(series)
        dev(j) == n * series[j].v - SumOf(series)
    IN  [i \in 1..n |->
            Quot(dev(i), SumSeq([j \in 1..n |-> dev(j) * dev(j)]) \div n)]

\* C12: with method 'z-score' a series whose standard deviation is 0 (every
\* constant series, of any length including 1) is returned unchanged, and every
\* other series is returned as (x - mean) / population standard deviation.
C12_ZScoreGuardsZeroStd ==
    (NormalizeReturned /\ n_method = "z-score" /\ Len(n_series) >= 1) =>
        IF PopulationStdIsZero(n_series)
        THEN n_out = n_series
        ELSE n_out = StandardScores(n_series)

\* C13: with method 'log' every element x > 0 becomes ln(x) and every element
\* x <= 0 becomes ln(1) = 0, position by position, and the warning is printed
\* exactly when some element is <= 0.
C13_LogFloorsNonPositive ==
    (NormalizeReturned /\ n_method = "log") =>
        /\ Len(n_out) = Len(n_series)
        /\ \A i \in 1..Len(n_series) :
              IF n_series[i].v > 0
              THEN n_out[i] = (IF n_series[i].v = 1 THEN Num(0) ELSE Ln(n_series[i].v))
              ELSE n_out[i] = Num(0)
        /\ n_warned <=> (\E i \in 1..Len(n_series) : n_series[i].v <= 0)

C13_Witness ==
    /\ NormalizeReturned
    /\ n_method = "log"
    /\ n_series = <<Num(2), Num(0), Num(-1)>>
    /\ n_out = <<Ln(2), Num(0), Num(0)>>
    /\ n_warned

(***************************************************************************)
(* Properties of unify_timestamps                                          *)
(***************************************************************************)
UnifyReturned == c_pc = "done" /\ c_fn = "unify_timestamps"

\* C14: when the named date column is absent, unify_timestamps returns the
\* input frame unchanged (no 'Month' column, no period index) and prints an
\* error message, without raising.
C14_AbsentDateColumn ==
    (UnifyReturned /\ u_col \notin ColumnNames(u_df)) =>
        /\ u_ret = ReturnedFrame(u_df)
        /\ u_after = u_df
        /\ "Month" \notin ColumnNames(u_ret.frame)
        /\ \A i \in 1..Len(u_ret.frame.index) : u_ret.frame.index[i].t # "period"
        /\ u_signal # "none"

C14_Witness ==
    /\ UnifyReturned
    /\ u_col = "Day"
    /\ ColumnNames(u_df) = {"Date", "Value"}
    /\ Len(u_df.index) = 2
    /\ u_ret = ReturnedFrame(u_df)
    /\ u_signal = "KeyError"

(***************************************************************************)
(* Properties of aggregate_monthly                                         *)
(***************************************************************************)
AggregateReturned == c_pc = "done" /\ c_fn = "aggregate_monthly"

\* the months in which the input has a row
ObservedMonths(index) == {index[i].m : i \in 1..Len(index)}
\* float v equals sum / count
IsQuotient(v, sum, count) ==
    IF v.t = "num" THEN v.v * count = sum
    ELSE v.t = "frac" /\ v.num * count = sum * v.den
SumAt(vals, rows) == SumSeq(ValuesAt([i \in 1..Len(vals) |-> vals[i].v], rows))

\* the call cannot succeed: unknown value column, an index that is not
\* convertible to dates, or an aggregation that fails
AggregateMustFail ==
    \/ a_col \notin ColumnNames(a_df)
    \/ \E i \in 1..Len(a_df.index) : a_df.index[i].t = "str"
    \/ a_func \notin {"mean", "sum"}

\* C15: aggregate_monthly never raises; an unknown value column, an index that
\* cannot be converted to dates or a failing aggregation gives an empty
\* series; otherwise the result holds exactly one value for each month-end
\* from the first to the last observed month, the aggregate of that month's
\* rows, for a monthly period index and a daily datetime index alike.
C15_AggregateMonthly ==
    AggregateReturned =>
        /\ a_ret.kind = "series"
        /\ AggregateMustFail => a_ret = EmptySeries
        /\ ~AggregateMustFail =>
              LET obs == ObservedMonths(a_df.index)
                  vals == a_df.cols[1].cells
              IN  /\ Len(a_ret.vals) = Len(a_ret.index)
                  /\ \A k \in 1..Len(a_ret.index) :
                        /\ a_ret.index[k] = Timestamp(a_ret.index[k].m, DaysPerMonth)
                        /\ \A j \in 1..Len(a_ret.index) :
                              j < k => a_ret.index[j].m < a_ret.index[k].m
                  /\ {a_ret.index[k].m : k \in 1..Len(a_ret.index)} =
                        {m \in Months : \E lo \in obs, hi \in obs : lo <= m /\ m <= hi}
                  /\ \A k \in 1..Len(a_ret.index) :
                        LET rows == RowsOfMonth(a_df.index, a_ret.index[k].m)
                        IN  IF a_func = "sum"
                            THEN a_ret.vals[k] = Num(SumAt(vals, rows))
                            ELSE IF rows = {} THEN a_ret.vals[k] = Missing
                            ELSE IsQuotient(a_ret.vals[k], SumAt(vals, rows), Cardinality(rows))

\* a daily datetime index over two months, averaged
C15_Witness ==
    /\ AggregateReturned
    /\ a_func = "mean"
    /\ a_col = "Value"
    /\ a_df.index = <<Timestamp(1, 1), Timestamp(1, 2), Timestamp(3, 1)>>
    /\ a_df.cols[1].cells = <<Num(1), Num(2), Num(2)>>
    /\ a_ret.index = <<Timestamp(1, DaysPerMonth), Timestamp(2, DaysPerMonth),
                       Timestamp(3, DaysPerMonth)>>
    /\ a_ret.vals = <<[t |-> "frac", num |-> 3, den |-> 2], Missing, Num(2)>>

(***************************************************************************)
(* Properties of merge_dataframes                                          *)
(***************************************************************************)
MergeReturned == m_pc = "done" /\ m_fn = "merge_dataframes"

MonthSet(df) == {df.index[i].m : i \in 1..Len(df.index)}
\* the value df holds for month m in its column c; NaN when it has no such month
ValueForMonth(df, c, m) ==
    IF m \in MonthSet(df)
    THEN df.cols[c].cells[CHOOSE i \in 1..Len(df.index) : df.index[i].m = m]
    ELSE Missing
NoMissingCell(df) ==
    \A c \in 1..Len(df.cols) : \A i \in 1..Len(df.cols[c].cells) : IsNum(df.cols[c].cells[i])

\* C16: the merged frame's month set is the intersection ('inner'), the union
\* ('outer'), df1's ('left') or df2's ('right') month set; every cell holds its
\* source frame's value for that month, or NaN where the source has no such
\* month; an inner merge of inputs without missing cells has no missing cell.
C16_MergeMonthSets ==
    (MergeReturned /\ m_how \in {"inner", "outer", "left", "right"}) =>
        /\ MonthSet(m_ret) =
              (IF m_how = "inner" THEN MonthSet(m_df1) \cap MonthSet(m_df2)
               ELSE IF m_how = "outer" THEN MonthSet(m_df1) \cup MonthSet(m_df2)
               ELSE IF m_how = "left" THEN MonthSet(m_df1)
               ELSE MonthSet(m_df2))
        /\ Len(m_ret.index) = Cardinality(MonthSet(m_ret))
        /\ Len(m_ret.cols) = Len(m_df1.cols) + Len(m_df2.cols)
        /\ \A k \in 1..Len(m_ret.index) :
              /\ \A c \in 1..Len(m_df1.cols) :
                    m_ret.cols[c].cells[k] = ValueForMonth(m_df1, c, m_ret.index[k].m)
              /\ \A c \in 1..Len(m_df2.cols) :
                    m_ret.cols[Len(m_df1.cols) + c].cells[k] =
                        ValueForMonth(m_df2, c, m_ret.index[k].m)
        /\ (m_how = "inner" /\ NoMissingCell(m_df1) /\ NoMissingCell(m_df2)) =>
              NoMissingCell(m_ret)

\* an outer merge of months {1, 2} with months {2, 3}
C16_Witness ==
    /\ MergeReturned
    /\ m_how = "outer"
    /\ MonthSet(m_df1) = {1, 2}
    /\ MonthSet(m_df2) = {2, 3}
    /\ NoMissingCell(m_df1) /\ NoMissingCell(m_df2)
    /\ MonthSet(m_ret) = {1, 2, 3}
    /\ m_ret.cols[1].cells = <<Num(1), Num(1), Missing>>
    /\ m_ret.cols[2].cells = <<Missing, Num(2), Num(2)>>

\* C17: whenever the two frames share a column name, the duplicate-column
\* warning is printed and the merged frame has pairwise distinct column names.
C17_CollisionFlagged ==
    (/\ MergeReturned
     /\ m_how \in {"inner", "outer", "left", "right"}
     /\ ColumnNames(m_df1) \cap ColumnNames(m_df2) # {}) =>
        /\ m_warned
        /\ ~ColumnsDuplicated(m_ret)

(***************************************************************************)
(* Properties of check_completeness                                        *)
(***************************************************************************)
CheckReturned == m_pc = "done" /\ m_fn = "check_completeness"

\* the months between the first and the last observed month that are not observed
AbsentMonths(df) ==
    {m \in 1..CheckMonths :
        /\ m \notin MonthSet(df)
        /\ \E lo \in MonthSet(df), hi \in MonthSet(df) : lo < m /\ m < hi}

\* C18: for a frame with a monthly time index a gap is reported exactly when
\* some month between the first and the last observed month is absent, the
\* months reported missing are exactly the absent ones, and the sequence is
\* reported continuous when no month is absent; stated here for a non-empty
\* PeriodIndex, the index of the claim's example.
C18_GapsAreAbsentMonths ==
    (CheckReturned /\ k_df.kind = "period" /\ Len(k_df.index) > 0) =>
        /\ k_report.kind \in {"gap", "continuous"}
        /\ k_report.kind = "gap" <=> AbsentMonths(k_df) # {}
        /\ k_report.kind = "gap" =>
              k_report.missing = {Period(m) : m \in AbsentMonths(k_df)}

(***************************************************************************)
(* Properties of the loader                                                *)
(***************************************************************************)
TemperatureLoaded == l_pc = "done" /\ l_fn \in {"load_temperature_data", "load_all_data"}
SecondaryLoaded == l_pc = "done" /\ l_fn \in {"load_secondary_data", "load_all_data"}

\* the file is missing, or its structure cannot be parsed
Unloadable(file) ==
    ~file.exists \/ file.content \in {"empty", "no date columns", "no value column", "bad dates"}
EmptyWithMessage(loaded) ==
    /\ loaded.table = EmptyTable
    /\ loaded.message \in {"file not found", "load error", "unknown file type"}

\* C19: a load of a missing file, of a file whose structure cannot be parsed,
\* or (secondary data) of a path that names neither sub-format returns an
\* empty table and prints a message; load_all_data returns both results even
\* when one of the loads fails.
C19_LoaderNeverFails ==
    /\ (TemperatureLoaded /\ Unloadable(l_temp_file)) => EmptyWithMessage(l_temp)
    /\ (SecondaryLoaded /\ (Unloadable(l_sec_file) \/ l_sec_path = "other")) =>
          EmptyWithMessage(l_sec)
    /\ (l_pc = "done" /\ l_fn = "load_all_data") =>
          l_temp.message # "not called" /\ l_sec.message # "not called"

(***************************************************************************)
(* Properties of fit_var_model                                             *)
(***************************************************************************)
\* C20: with lag_order <= 0 fit_var_model returns None and prints an error,
\* and no model has been constructed or estimated, whatever the input frame.
C20_NonPositiveLagRejected ==
    (f_pc = "done" /\ f_lag <= 0) =>
        /\ f_ret = "None"
        /\ f_errsignal # "none"
        /\ f_built = 0
        /\ f_fits = 0

C20_Witness ==
    /\ f_pc = "done"
    /\ f_lag = 0
    /\ Len(f_data.rows) = 3
    /\ Complete(f_data)
    /\ f_ret = "None"
    /\ f_errsignal = "zero lag"
    /\ f_built = 0

(***************************************************************************)
(* Properties of select_optimal_lag                                        *)
(***************************************************************************)
SelectionSucceeded == f_pc = "selected" /\ o_scan # <<>>

\* The score the scan gave to a lag order under a criterion.
ScoreOfLag(c, lag) == o_scan[1].ics[c][lag + 1]

\* C21: when lag selection succeeds, the returned mapping carries the full scan
\* under 'summary' and, for each requested criterion the scan scores, a lag
\* order within 1..max_lags whose score no lag order of 1..max_lags beats.
C21_SelectedLagMinimises ==
    SelectionSucceeded =>
        /\ DictHas(o_ret, "summary")
        /\ DictGet(o_ret, "summary") = o_scan[1]
        /\ \A k \in 1..Len(o_criteria) :
              o_criteria[k] \in LibCriteria =>
                  LET e == DictGet(o_ret, o_criteria[k])
                  IN  /\ IsLagEntry(e)
                      /\ e.lag \in 1..o_max_lags
                      /\ \A p \in 1..o_max_lags :
                            ScoreOfLag(o_criteria[k], e.lag) <= ScoreOfLag(o_criteria[k], p)

\* C21 amended: the same with the lag order within 0..max_lags, minimising the
\* criterion over the lag orders 0..max_lags.
C21_SelectedLagMinimisesFromZero ==
    SelectionSucceeded =>
        /\ DictHas(o_ret, "summary")
        /\ DictGet(o_ret, "summary") = o_scan[1]
        /\ \A k \in 1..Len(o_criteria) :
              o_criteria[k] \in LibCriteria =>
                  LET e == DictGet(o_ret, o_criteria[k])
                  IN  /\ IsLagEntry(e)
                      /\ e.lag \in 0..o_max_lags
                      /\ \A p \in 0..o_max_lags :
                            ScoreOfLag(o_criteria[k], e.lag) <= ScoreOfLag(o_criteria[k], p)

C21_Witness ==
    /\ SelectionSucceeded
    /\ o_max_lags = 2
    /\ o_criteria = <<"aic", "bic">>
    /\ o_scan[1].ics["aic"] = <<2, 2, 1>>
    /\ o_scan[1].ics["bic"] = <<1, 2, 2>>
    /\ DictGet(o_ret, "aic") = LagEntry(2)
    /\ DictGet(o_ret, "bic") = LagEntry(0)

Calling(t) == ~At(t, "idle")
Returned_(t) == At(t, "done")
HandlersOfKind(logger, kind) ==
    {i \in 1..Len(r_loggers[logger].handlers) : r_loggers[logger].handlers[i].kind = kind}
NoDuplicateHandlers(logger) ==
    /\ Cardinality(HandlersOfKind(logger, "console")) <= 1
    /\ Cardinality(HandlersOfKind(logger, "file")) <= 1

\* C23: a call with a name that is already registered returns the registered
\* logger, whatever options it passes, and no step of the call changes the
\* level or the handler list of any logger, or the registry.
C23_RegisteredNameReturnsSame ==
    [][\A t \in Callers :
         (Calling(t) /\ r_callers[t].registered) =>
            /\ r_loggers' = r_loggers
            /\ r_registry' = r_registry
            /\ r_callers'[t].pc \in {"done", "idle"}
            /\ r_callers'[t].pc = "done" =>
                  r_callers'[t].ret = r_registry[r_callers[t].name]]_vars

C23_Witness ==
    \E t \in Callers :
        /\ Returned_(t)
        /\ r_callers[t].registered
        /\ r_callers[t].ret = r_callers[t].name
        /\ r_callers[t].log_level = "DEBUG"
        /\ r_callers[t].use_console = FALSE
        /\ r_callers[t].log_file = "data_loading.log"
        /\ r_loggers[r_callers[t].ret] =
              [level |-> INFO, propagate |-> FALSE,
               handlers |-> <<ConsoleHandler, FileHandler("analysis.log")>>]

\* C24: when several callers run setup_logger concurrently for one name, all
\* of them obtain the same logger, and once no call is in progress that logger
\* has at most one console handler and at most one file handler.
C24_ConcurrentCallsNoDuplicates ==
    /\ \A t, u \in Callers :
          (Returned_(t) /\ Returned_(u) /\ r_callers[t].name = r_callers[u].name) =>
              r_callers[t].ret = r_callers[u].ret
    /\ \A t \in Callers :
          (Returned_(t) /\ \A u \in Callers : At(u, "idle") \/ At(u, "done")) =>
              NoDuplicateHandlers(r_callers[t].ret)

\* C30: under calls made one after another, with resets of the registry in
\* between, a returned logger has at most one console handler and at most one
\* file handler; the logger a call has configured has a console handler
\* exactly when use_console was passed and a file handler exactly when
\* use_file was passed and the file could be opened, whatever handlers an
\* earlier configuration had left on it.
C30_HandlersMatchConfiguration ==
    \A t \in Callers :
        Returned_(t) =>
            /\ NoDuplicateHandlers(r_callers[t].ret)
            /\ ~r_callers[t].registered =>
                  /\ (HandlersOfKind(r_callers[t].ret, "console") # {}) = r_callers[t].use_console
                  /\ (HandlersOfKind(r_callers[t].ret, "file") # {}) = r_callers[t].opened
                  /\ r_callers[t].opened => r_callers[t].use_file

C30_Witness ==
    \E t \in Callers :
        /\ Returned_(t)
        /\ ~r_callers[t].registered
        /\ r_callers[t].leftover
        /\ r_callers[t].use_console = FALSE
        /\ r_callers[t].use_file
        /\ r_loggers[r_callers[t].ret].handlers = <<FileHandler("data_loading.log")>>

(***************************************************************************)
(* Properties of the stationarity stage                                    *)
(***************************************************************************)
\* C26: a series judged non-stationary is differenced and tested again until
\* the tests decide for stationarity, and the loop ends after at most
\* MAX_DIFFERENCING_ORDER rounds: the number of rounds never exceeds it, a
\* further round starts only after a non-stationary decision and below the
\* maximum, and the stage ends non-stationary only at the maximum.
C26_DifferencingRoundsBounded ==
    /\ t_order <= MAX_DIFFERENCING_ORDER
    /\ t_pc = "difference" => (~t_stationary /\ t_order < MAX_DIFFERENCING_ORDER)
    /\ (t_pc = "done" /\ ~t_stationary) => t_order = MAX_DIFFERENCING_ORDER

C26_Witness ==
    /\ t_pc = "done"
    /\ t_order = MAX_DIFFERENCING_ORDER
    /\ ~t_stationary
    /\ Len(t_series.rows) = 1

(***************************************************************************)
(* Frame effect of the data-processing operations                          *)
(***************************************************************************)
\* C28: when unify_timestamps returns, on the success path and on every
\* error path, the frame object the caller passed in still has the index,
\* the columns and the values it had when the call was made.
C28_CallerFrameUnmodified == UnifyReturned => u_after = u_df

\* C29 as stated: summarize_granger_results, fed the value a call of
\* perform_granger_causality_test returned (the no-result value of
\* max_lag <= 0 included), returns a table without raising, with as many
\* rows as the outcome has entries.
C29_SummarizeAcceptsEveryOutcome ==
    g_pc = "summarized" =>
        /\ ~g_summary.raised
        /\ Len(g_summary.rows) = Len(g_results)

\* C29: summarize_granger_results, fed a mapping that
\* perform_granger_causality_test returned (with result and/or error
\* entries, or empty), returns a table without raising, with as many rows as
\* the mapping has entries; fed the None of max_lag <= 0 it raises.
C29_SummarizeAcceptsEveryMapping ==
    g_pc = "summarized" =>
        IF g_ret = "None"
        THEN g_summary.raised
        ELSE /\ ~g_summary.raised
             /\ Len(g_summary.rows) = Len(g_results)

C29_Witness ==
    /\ g_pc = "summarized"
    /\ g_ret # "None"
    /\ Len(g_names) = 3
    /\ Len(g_summary.rows) = 6
    /\ \E k \in 1..6 : "error" \in DOMAIN g_results[k].val
    /\ \E k \in 1..6 : "error" \notin DOMAIN g_results[k].val

(***************************************************************************)
(* Properties of convert.py                                                *)
(***************************************************************************)
InputDates == SubSeq(v_all_rows[1], 2, Len(v_all_rows[1]))
InputIndicators == SubSeq(v_all_rows, 2, Len(v_all_rows))

\* '<month name> <year>' with a known month name, in any letter case
IsMonthAndYear(d) ==
    /\ Len(d.words) = 2
    /\ d.words[1].lower \in DOMAIN month_map

\* C27: the output is the header [label, name_1..name_m] followed by exactly
\* n rows; row i holds the date d_i, as 'MM.YYYY' when d_i is a known month
\* name and a year and unchanged otherwise, then the value of each indicator
\* for that date, '' where the indicator row has none.
C27_Transposition ==
    v_pc = "done" =>
        LET n == Len(InputDates)
            m == Len(InputIndicators)
        IN  /\ Len(v_out) = n + 1
            /\ Len(v_out[1]) = m + 1
            /\ v_out[1][1] = v_all_rows[1][1]
            /\ \A j \in 1..m : v_out[1][j + 1] = InputIndicators[j][1]
            /\ \A i \in 1..n :
                  /\ Len(v_out[i + 1]) = m + 1
                  /\ IF IsMonthAndYear(InputDates[i])
                     THEN /\ v_out[i + 1][1].t = "MM.YYYY"
                          /\ v_out[i + 1][1].month = month_map[InputDates[i].words[1].lower]
                          /\ v_out[i + 1][1].year = InputDates[i].words[2]
                     ELSE v_out[i + 1][1] = InputDates[i]
                  /\ \A j \in 1..m :
                        v_out[i + 1][j + 1] =
                            IF Len(InputIndicators[j]) >= i + 1
                            THEN PlainCell(<<"value", j, i>>) ELSE EmptyCell

C27_Witness ==
    /\ v_pc = "done"
    /\ Len(InputDates) = 2
    /\ Len(InputIndicators) = 2
    /\ Len(InputIndicators[1]) = 3
    /\ Len(InputIndicators[2]) = 2
    /\ InputDates[1].words[1] = Word("dekabr", TRUE)
    /\ v_out[2] = <<MonthYear("12", Word("2014", FALSE)),
                    PlainCell(<<"value", 1, 1>>), PlainCell(<<"value", 2, 1>>)>>
    /\ v_out[3][1] = InputDates[2]
    /\ InputDates[2].words = <<Word("2013", FALSE)>>
    /\ v_out[3][3] = EmptyCell

====
